---- MODULE Spec2Model ----
(***************************************************************************)
(* A model of tsvd, an editor that changes tab-separated tables through    *)
(* tool calls of a language model and asks the user before committing.     *)
(*                                                                         *)
(* Strings are sequences of one-character strings, so that split, join,    *)
(* trim, regular expressions and charCodeAt are computed character by      *)
(* character as the JavaScript code computes them.  A table is a sequence  *)
(* of rows, a row a sequence of cells, a cell a string.                    *)
(***************************************************************************)
EXTENDS Integers, Sequences, FiniteSets, TLC

VARIABLES
    input,      \* pure functions: the argument the run starts from
    applied,    \* pure functions: the names of the functions applied so far
    value,      \* pure functions: the value after the last function applied
    heap,       \* the table and row objects (see the heap section)
    pc,                     \* main: where the interactive loop stands
    originalFilePath,       \* main: "null" when the table came from stdin
    originalFile,           \* the content of the user's original file
    workingFile,            \* the content of the temporary working file
    workingFileExists,      \* whether the working file is on disk
    targetFiles,            \* contents saved under a file name asked at exit
    currentTable,           \* main: reference to the committed table
    lastKnownDiskContent,   \* main: working file content last read or written
    messages,               \* main: roles of the conversation history
    workingTable,           \* turn: reference to the working table, 0 outside a turn
    hasSuccessfulChanges,   \* turn: some tool call succeeded
    errors,                 \* turn: the errors of the failed tool calls
    diskContentRead,        \* turn: the read of the working file before the call
    callLog,                \* turn: the tool calls executed, in order
    oldTSV,                 \* turn: left side of the diff shown
    newTSV,                 \* turn: right side of the diff shown
    confirmResult,          \* turn: answer to 'Accept changes?'
    handlingSignal,         \* SIGINT listener: re-entry flag
    exitPc,                 \* handleExit of main and of the listener: position
    exitTSV,                \* handleExit: its currentTSV
    saveConfirm             \* handleExit: answer to the save prompt

pureVars == <<input, applied, value>>

fileVars == <<originalFilePath, originalFile, workingFile, workingFileExists, targetFiles>>

turnVars == <<workingTable, hasSuccessfulChanges, errors, callLog, oldTSV, newTSV,
              confirmResult, diskContentRead>>

exitVars == <<handlingSignal, exitPc, exitTSV, saveConfirm>>

sessionVars == <<pc, fileVars, currentTable, lastKnownDiskContent, messages,
                 turnVars, exitVars>>

vars == <<pureVars, heap, sessionVars>>

----------------------------------------------------------------------------
(* Characters                                                              *)

Upper == <<"A","B","C","D","E","F","G","H","I","J","K","L","M",
           "N","O","P","Q","R","S","T","U","V","W","X","Y","Z">>

Lower == <<"a","b","c","d","e","f","g","h","i","j","k","l","m",
           "n","o","p","q","r","s","t","u","v","w","x","y","z">>

Digits == <<"0","1","2","3","4","5","6","7","8","9">>

TAB == "\t"

LF == "\n"

IndexOf(seq, c) == CHOOSE i \in 1..Len(seq) : seq[i] = c

IsIn(seq, c) == \E i \in 1..Len(seq) : seq[i] = c

\* String.prototype.charCodeAt for one character (ASCII)
charCodeAt(c) ==
    IF IsIn(Upper, c) THEN 64 + IndexOf(Upper, c)
    ELSE IF IsIn(Lower, c) THEN 96 + IndexOf(Lower, c)
    ELSE IF IsIn(Digits, c) THEN 47 + IndexOf(Digits, c)
    ELSE CASE c = TAB -> 9
           [] c = LF -> 10
           [] c = " " -> 32
           [] c = "$" -> 36
           [] c = "-" -> 45
           [] c = "|" -> 124

\* String.fromCharCode, used by the code for 65..90 only
fromCharCode(n) == Upper[n - 64]

\* String.prototype.toUpperCase
toUpperCase(s) ==
    [i \in 1..Len(s) |-> IF IsIn(Lower, s[i]) THEN Upper[IndexOf(Lower, s[i])] ELSE s[i]]

\* All strings over an alphabet with at most n characters
StringsUpTo(alphabet, n) == UNION {[1..k -> alphabet] : k \in 0..n}

----------------------------------------------------------------------------
(* Coordinate codec                                                        *)

RECURSIVE LabelLoop(_, _)
LabelLoop(num, label) ==
    IF num > 0
    THEN LET n == num - 1
         IN LabelLoop(n \div 26, <<fromCharCode(65 + (n % 26))>> \o label)
    ELSE label

indexToColumnLabel(index) == LabelLoop(index + 1, <<>>)

RECURSIVE IndexLoop(_, _, _)
IndexLoop(label, i, result) ==
    IF i <= Len(label)
    THEN IndexLoop(label, i + 1, result * 26 + (charCodeAt(label[i]) - 64))
    ELSE result

\* mutant: the result is left 1-based
columnLabelToIndexOneBased(label) == IndexLoop(label, 1, 0)

columnLabelToIndex(label) == IndexLoop(label, 1, 0) - 1

\* A value returned, or an exception thrown, by a function that may throw
Returned(v) == [threw |-> FALSE, value |-> v, error |-> <<>>]

Thrown(msg, about) == [threw |-> TRUE, value |-> <<>>, error |-> <<msg, about>>]

\* Length of the longest prefix of s[from..] whose characters are in class
RECURSIVE RunLength(_, _, _)
RunLength(s, from, class) ==
    IF from <= Len(s) /\ IsIn(class, s[from])
    THEN 1 + RunLength(s, from + 1, class)
    ELSE 0

\* mutant: the pattern carries the i flag, /^([A-Z]+)(\d+)$/i
MatchCellIgnoreCase(cell) ==
    LET letters == Upper \o Lower
        nLetters == RunLength(cell, 1, letters)
        nDigits == RunLength(cell, nLetters + 1, Digits)
    IN IF nLetters >= 1 /\ nDigits >= 1 /\ nLetters + nDigits = Len(cell)
       THEN [matched |-> TRUE,
             colLabel |-> SubSeq(cell, 1, nLetters),
             rowStr |-> SubSeq(cell, nLetters + 1, Len(cell))]
       ELSE [matched |-> FALSE, colLabel |-> <<>>, rowStr |-> <<>>]

\* cell.match(/^([A-Z]+)(\d+)$/): the two groups, or no match.  The classes
\* are disjoint, so the greedy match of each group is the only candidate.
MatchCell(cell) ==
    LET nLetters == RunLength(cell, 1, Upper)
        nDigits == RunLength(cell, nLetters + 1, Digits)
    IN IF nLetters >= 1 /\ nDigits >= 1 /\ nLetters + nDigits = Len(cell)
       THEN [matched |-> TRUE,
             colLabel |-> SubSeq(cell, 1, nLetters),
             rowStr |-> SubSeq(cell, nLetters + 1, Len(cell))]
       ELSE [matched |-> FALSE, colLabel |-> <<>>, rowStr |-> <<>>]

\* parseInt(rowStr, 10) of a string of decimal digits
RECURSIVE parseInt(_)
parseInt(rowStr) ==
    IF rowStr = <<>> THEN 0
    ELSE 10 * parseInt(SubSeq(rowStr, 1, Len(rowStr) - 1))
         + (charCodeAt(rowStr[Len(rowStr)]) - 48)

\* mutant: the row number is not converted to 0-based
parseCellCoordinateOneBased(cell) ==
    LET match == MatchCell(cell)
    IN IF ~match.matched
       THEN Thrown("Invalid cell coordinate", cell)
       ELSE LET colIndex == columnLabelToIndex(match.colLabel)
                rowIndex == parseInt(match.rowStr)
            IN IF rowIndex < 0
               THEN Thrown("Invalid row number in cell coordinate", cell)
               ELSE Returned([colIndex |-> colIndex, rowIndex |-> rowIndex])

parseCellCoordinate(cell) ==
    LET match == MatchCell(cell)
    IN IF ~match.matched
       THEN Thrown("Invalid cell coordinate", cell)
       ELSE LET colIndex == columnLabelToIndex(match.colLabel)
                rowIndex == parseInt(match.rowStr) - 1
            IN IF rowIndex < 0
               THEN Thrown("Invalid row number in cell coordinate", cell)
               ELSE Returned([colIndex |-> colIndex, rowIndex |-> rowIndex])

----------------------------------------------------------------------------
(* Table model: tab-separated text                                         *)

\* String.prototype.split(sep) for a one-character separator: the pieces
\* between consecutive separators (one piece more than there are separators)
split(s, sep) ==
    LET seps == {i \in 1..Len(s) : s[i] = sep}
        n == Cardinality(seps)
        pos(k) == IF k = 0 THEN 0
                  ELSE IF k = n + 1 THEN Len(s) + 1
                  ELSE CHOOSE p \in seps : Cardinality({q \in seps : q <= p}) = k
    IN [k \in 1..(n + 1) |-> SubSeq(s, pos(k - 1) + 1, pos(k) - 1)]

\* Array.prototype.join(sep) of an array of strings
RECURSIVE join(_, _)
join(parts, sep) ==
    IF parts = <<>> THEN <<>>
    ELSE IF Len(parts) = 1 THEN parts[1]
    ELSE parts[1] \o sep \o join(Tail(parts), sep)

includes(s, c) == IsIn(s, c)

\* mutant: the final empty row is kept
parseTSVNoPop(content) ==
    LET lines == split(content, LF)
    IN [k \in 1..Len(lines) |->
          LET cells == split(lines[k], TAB)
          IN [c \in 1..Len(cells) |->
                IF includes(cells[c], TAB) THEN <<>> ELSE cells[c]]]

parseTSV(content) ==
    LET lines == split(content, LF)
        table == [k \in 1..Len(lines) |->
                    LET cells == split(lines[k], TAB)
                    IN [c \in 1..Len(cells) |->
                          IF includes(cells[c], TAB) THEN <<>> ELSE cells[c]]]
    IN IF Len(table) > 0 /\ Len(table[Len(table)]) = 1
                         /\ table[Len(table)][1] = <<>>
       THEN SubSeq(table, 1, Len(table) - 1)
       ELSE table

\* mutant: no trailing line break is appended
tableToTSVNoNewline(table) ==
    join([r \in 1..Len(table) |-> join(table[r], <<TAB>>)], <<LF>>)

tableToTSV(table) ==
    join([r \in 1..Len(table) |-> join(table[r], <<TAB>>)], <<LF>>) \o <<LF>>

----------------------------------------------------------------------------
(* Table model: labeled (markdown) rendering                               *)

Whitespace == <<" ", TAB, LF>>

\* String.prototype.trimStart, trimEnd and trim
trimStart(s) ==
    LET kept == {i \in 1..Len(s) : ~IsIn(Whitespace, s[i])}
    IN IF kept = {} THEN <<>>
       ELSE SubSeq(s, CHOOSE i \in kept : \A j \in kept : i <= j, Len(s))

trimEnd(s) ==
    LET kept == {i \in 1..Len(s) : ~IsIn(Whitespace, s[i])}
    IN IF kept = {} THEN <<>>
       ELSE SubSeq(s, 1, CHOOSE i \in kept : \A j \in kept : i >= j)

trim(s) == trimEnd(trimStart(s))

\* String(n) for a positive integer
RECURSIVE String(_)
String(n) ==
    IF n < 10 THEN <<Digits[n + 1]>>
    ELSE String(n \div 10) \o <<Digits[(n % 10) + 1]>>

\* Math.max(...lengths) of a non-empty array
MaxRowLength(table) ==
    CHOOSE n \in {Len(table[r]) : r \in 1..Len(table)} :
        \A r \in 1..Len(table) : Len(table[r]) <= n

CellSeparator == <<" ", "|", " ">>

TableLine(cells) == <<"|", " ">> \o join(cells, CellSeparator) \o <<" ", "|">>

tableToMarkdown(table) ==
    IF Len(table) = 0 THEN <<>>
    ELSE LET numCols == MaxRowLength(table)
             headers == << <<>> >> \o [i \in 1..numCols |-> indexToColumnLabel(i - 1)]
             headerRow == TableLine(headers)
             separator == TableLine([i \in 1..Len(headers) |-> <<"-", "-", "-">>])
             dataRows ==
                 [r \in 1..Len(table) |->
                    LET paddedRow == [c \in 1..numCols |->
                                        IF c <= Len(table[r]) THEN table[r][c] ELSE <<>>]
                        cells == <<String(r)>> \o
                                 [c \in 1..numCols |->
                                    IF paddedRow[c] = <<>> THEN <<" ">> ELSE paddedRow[c]]
                    IN TableLine(cells)]
         IN join(<<headerRow, separator>> \o dataRows, <<LF>>)

\* /^[\s|\-]+$/.test(line)
IsSeparatorLine(line) ==
    /\ line # <<>>
    /\ \A i \in 1..Len(line) : IsIn(Whitespace, line[i]) \/ line[i] \in {"|", "-"}

\* mutant: the row number is kept as the first cell
DataCellsWithRowNumber(line) ==
    LET pieces == split(line, "|")
        trimmed == [k \in 1..Len(pieces) |-> trim(pieces[k])]
    IN IF Len(trimmed) >= 2 THEN SubSeq(trimmed, 2, Len(trimmed) - 1) ELSE <<>>

\* The data cells of one line: split on '|', trim, drop the first and the
\* last piece, drop the row number, turn ' ' into ''
DataCells(line) ==
    LET pieces == split(line, "|")
        trimmed == [k \in 1..Len(pieces) |-> trim(pieces[k])]
        cells == IF Len(trimmed) >= 2 THEN SubSeq(trimmed, 2, Len(trimmed) - 1) ELSE <<>>
        sliced == IF Len(cells) >= 1 THEN Tail(cells) ELSE <<>>
    IN [k \in 1..Len(sliced) |-> IF sliced[k] = <<" ">> THEN <<>> ELSE sliced[k]]

RECURSIVE MarkdownRows(_, _)
MarkdownRows(lines, i) ==
    IF i > Len(lines) THEN <<>>
    ELSE LET line == trim(lines[i])
         IN IF IsSeparatorLine(line) THEN MarkdownRows(lines, i + 1)
            ELSE IF i = 1 THEN MarkdownRows(lines, i + 1)
            ELSE <<DataCells(line)>> \o MarkdownRows(lines, i + 1)

markdownToTable(markdown) == MarkdownRows(split(trim(markdown), LF), 1)

----------------------------------------------------------------------------
(* The heap: arrays are objects, and a variable holds a reference.         *)
(* heap.tables[t] is the array of row references of table object t,        *)
(* heap.rows[r] the array of cells of row object r.  Reference 0 is        *)
(* undefined.                                                              *)

EmptyHeap == [tables |-> <<>>, rows |-> <<>>]

\* The value of a table object
Deref(h, t) == [i \in 1..Len(h.tables[t]) |-> h.rows[h.tables[t][i]]]

\* A new table object with new row objects
NewTable(h, table) ==
    [heap |-> [tables |-> Append(h.tables, [i \in 1..Len(table) |-> Len(h.rows) + i]),
               rows |-> h.rows \o table],
     ref |-> Len(h.tables) + 1]

\* mutant: a shallow copy, [...table], that shares the row objects
structuredCloneShallow(h, t) ==
    [heap |-> [tables |-> Append(h.tables, h.tables[t]), rows |-> h.rows],
     ref |-> Len(h.tables) + 1]

\* mutant: no copy at all, the clone is the table object itself
structuredCloneAliased(h, t) == [heap |-> h, ref |-> t]

\* structuredClone(table): a deep copy
structuredClone(h, t) == NewTable(h, Deref(h, t))

\* array.push on a table object and on a row object
PushRow(h, t, row) ==
    [tables |-> [h.tables EXCEPT ![t] = Append(@, Len(h.rows) + 1)],
     rows |-> Append(h.rows, row)]

PushCell(h, r, cell) == [h EXCEPT !.rows[r] = Append(@, cell)]

\* mutant: the rows appended hold one empty cell, newTable.push([""])
RECURSIVE GrowTableOfCells(_, _, _)
GrowTableOfCells(h, t, rowIndex) ==
    IF Len(h.tables[t]) <= rowIndex
    THEN GrowTableOfCells(PushRow(h, t, << <<>> >>), t, rowIndex)
    ELSE h

\* while (newTable.length <= rowIndex) newTable.push([])
RECURSIVE GrowTable(_, _, _)
GrowTable(h, t, rowIndex) ==
    IF Len(h.tables[t]) <= rowIndex
    THEN GrowTable(PushRow(h, t, <<>>), t, rowIndex)
    ELSE h

\* while (row.length <= colIndex) row.push("")
RECURSIVE GrowRow(_, _, _)
GrowRow(h, r, colIndex) ==
    IF Len(h.rows[r]) <= colIndex
    THEN GrowRow(PushCell(h, r, <<>>), r, colIndex)
    ELSE h

\* table[rowIndex][colIndex] = v
SetCell(h, t, rowIndex, colIndex, v) ==
    [h EXCEPT !.rows[h.tables[t][rowIndex + 1]][colIndex + 1] = v]

----------------------------------------------------------------------------
(* Mutation primitives                                                     *)

ErrorItem(text, about, message) ==
    [text |-> text, about |-> about, message |-> message,
     row |-> 0, actual |-> 0, expected |-> 0]

CountError(text, about, row, actual, expected) ==
    [text |-> text, about |-> about, message |-> <<>>,
     row |-> row, actual |-> actual, expected |-> expected]

\* ToolResult: proposedTable is a reference, 0 when there is none
Success(h, t) ==
    [heap |-> h, result |-> [success |-> TRUE, error |-> <<>>, proposedTable |-> t]]

Failure(h, errs) ==
    [heap |-> h, result |-> [success |-> FALSE, error |-> errs, proposedTable |-> 0]]

StartsWithAt(s, sub, i) ==
    i + Len(sub) - 1 <= Len(s) /\ SubSeq(s, i, i + Len(sub) - 1) = sub

\* The start of the first occurrence of sub in s at or after position i,
\* 0 when there is none
NextMatch(s, sub, i) ==
    LET starts == {j \in i..Len(s) : StartsWithAt(s, sub, j)}
    IN IF starts = {} THEN 0 ELSE CHOOSE j \in starts : \A k \in starts : j <= k

\* The starts of the matches of a global search for a non-empty literal:
\* non-overlapping occurrences, found left to right
RECURSIVE MatchesFrom(_, _, _)
MatchesFrom(s, sub, i) ==
    LET j == NextMatch(s, sub, i)
    IN IF j = 0 THEN <<>> ELSE <<j>> \o MatchesFrom(s, sub, j + Len(sub))

\* (s.match(new RegExp(escapeRegex(oldStr), "g")) || []).length: the escaped
\* pattern matches oldStr literally; the empty pattern matches at every
\* position, the end included
Occurrences(s, oldStr) ==
    IF oldStr = <<>> THEN Len(s) + 1 ELSE Len(MatchesFrom(s, oldStr, 1))

\* The replacement text of one match: in a replacement string "$$" stands
\* for "$" and "$&" for the matched text (the patterns "$`", "$'" and "$<"
\* are outside the alphabets used here).
RECURSIVE Substitution(_, _, _)
Substitution(newStr, matched, i) ==
    IF i > Len(newStr) THEN <<>>
    ELSE IF newStr[i] = "$" /\ i < Len(newStr) /\ newStr[i + 1] = "$"
    THEN <<"$">> \o Substitution(newStr, matched, i + 2)
    ELSE IF newStr[i] = "$" /\ i < Len(newStr) /\ newStr[i + 1] = "&"
    THEN matched \o Substitution(newStr, matched, i + 2)
    ELSE <<newStr[i]>> \o Substitution(newStr, matched, i + 1)

\* mutant: String.prototype.replace, which replaces the first match only
replaceFirst(s, oldStr, newStr) ==
    LET j == IF oldStr = <<>> THEN 1 ELSE NextMatch(s, oldStr, 1)
    IN IF j = 0 THEN s
       ELSE SubSeq(s, 1, j - 1) \o Substitution(newStr, oldStr, 1)
            \o SubSeq(s, j + Len(oldStr), Len(s))

\* String.prototype.replaceAll(oldStr, newStr) with a string pattern: the
\* text between the matches, joined by the replacement text; the empty
\* pattern matches before every character and at the end
replaceAll(s, oldStr, newStr) ==
    IF oldStr = <<>>
    THEN LET piece == Substitution(newStr, <<>>, 1)
             block == Len(piece) + 1
         IN [i \in 1..((Len(s) + 1) * Len(piece) + Len(s)) |->
               IF (i - 1) % block < Len(piece)
               THEN piece[((i - 1) % block) + 1]
               ELSE s[((i - 1) \div block) + 1]]
    ELSE LET matches == MatchesFrom(s, oldStr, 1)
             n == Len(matches)
             between == [k \in 1..(n + 1) |->
                           SubSeq(s,
                                  IF k = 1 THEN 1 ELSE matches[k - 1] + Len(oldStr),
                                  IF k = n + 1 THEN Len(s) ELSE matches[k] - 1)]
         IN join(between, Substitution(newStr, oldStr, 1))

\* mutant: a search text that occurs more than once is refused
toolStrReplaceOnce(h, table, toolInput) ==
    LET currentMarkdown == tableToMarkdown(Deref(h, table))
        occurrences == Occurrences(currentMarkdown, toolInput.old_str)
    IN IF occurrences = 0
       THEN Failure(h, <<ErrorItem("String not found in spreadsheet", <<>>, <<>>)>>)
       ELSE IF occurrences > 1
       THEN Failure(h, <<CountError("String appears several times", <<>>, 0, occurrences, 1)>>)
       ELSE LET parsed == NewTable(h, markdownToTable(
                              replaceFirst(currentMarkdown, toolInput.old_str,
                                           toolInput.new_str)))
            IN Success(parsed.heap, parsed.ref)

toolStrReplace(h, table, toolInput) ==
    LET oldStr == toolInput.old_str
        newStr == toolInput.new_str
        currentMarkdown == tableToMarkdown(Deref(h, table))
        occurrences == Occurrences(currentMarkdown, oldStr)
    IN IF occurrences = 0
       THEN Failure(h, <<ErrorItem("String not found in spreadsheet", <<>>, <<>>)>>)
       ELSE LET newMarkdown == replaceAll(currentMarkdown, oldStr, newStr)
                parsed == NewTable(h, markdownToTable(newMarkdown))
            IN Success(parsed.heap, parsed.ref)

toolReplaceAll(h, table, toolInput) ==
    LET parsed == NewTable(h, markdownToTable(toolInput.new_table))
    IN Success(parsed.heap, parsed.ref)

RECURSIVE EditCellsLoop(_, _, _, _, _)
EditCellsLoop(h, newTable, edits, k, errs) ==
    IF k > Len(edits) THEN [heap |-> h, errs |-> errs]
    ELSE LET cell == edits[k].cell
             parsed == parseCellCoordinate(toUpperCase(cell))
         IN IF parsed.threw
            THEN EditCellsLoop(h, newTable, edits, k + 1,
                     Append(errs,
                            ErrorItem("Invalid cell coordinate", <<cell>>, parsed.error)))
            ELSE LET rowIndex == parsed.value.rowIndex
                     colIndex == parsed.value.colIndex
                     h1 == GrowTable(h, newTable, rowIndex)
                     h2 == GrowRow(h1, h1.tables[newTable][rowIndex + 1], colIndex)
                 IN EditCellsLoop(SetCell(h2, newTable, rowIndex, colIndex, edits[k].value),
                                  newTable, edits, k + 1, errs)

\* mutant: the edits whose address parsed are returned although others failed
toolEditCellsPartial(h, table, toolInput) ==
    LET newTable == structuredClone(h, table)
        done == EditCellsLoop(newTable.heap, newTable.ref, toolInput.edits, 1, <<>>)
    IN IF Len(done.errs) = Len(toolInput.edits) /\ Len(done.errs) > 0
       THEN Failure(done.heap, done.errs)
       ELSE Success(done.heap, newTable.ref)

toolEditCells(h, table, toolInput) ==
    LET newTable == structuredClone(h, table)
        done == EditCellsLoop(newTable.heap, newTable.ref, toolInput.edits, 1, <<>>)
    IN IF Len(done.errs) > 0
       THEN Failure(done.heap, done.errs)
       ELSE Success(done.heap, newTable.ref)

\* mutant: newAreaData is the values array itself, not a copy
CopyValuesAliased(h, values) == [heap |-> h, ref |-> values]

\* values.map((row) => [...row]): a new array of new rows
CopyValues(h, values) == NewTable(h, Deref(h, values))

\* while (newAreaData.length < expectedRows) newAreaData.push([])
RECURSIVE PadRows(_, _, _)
PadRows(h, t, expectedRows) ==
    IF Len(h.tables[t]) < expectedRows
    THEN PadRows(PushRow(h, t, <<>>), t, expectedRows)
    ELSE h

\* mutant: the missing cells are filled with the placeholder ' '
RECURSIVE PadRowWithPlaceholder(_, _, _)
PadRowWithPlaceholder(h, r, expectedCols) ==
    IF Len(h.rows[r]) < expectedCols
    THEN PadRowWithPlaceholder(PushCell(h, r, <<" ">>), r, expectedCols)
    ELSE h

\* while (newAreaData[i].length < expectedCols) newAreaData[i].push("")
RECURSIVE PadRow(_, _, _)
PadRow(h, r, expectedCols) ==
    IF Len(h.rows[r]) < expectedCols
    THEN PadRow(PushCell(h, r, <<>>), r, expectedCols)
    ELSE h

\* mutant: the rows are padded and a row that is too long is let through
RECURSIVE PadColumnsUnchecked(_, _, _, _)
PadColumnsUnchecked(h, t, expectedCols, i) ==
    IF i >= Len(h.tables[t]) THEN [heap |-> h, tooLong |-> -1]
    ELSE PadColumnsUnchecked(PadRow(h, h.tables[t][i + 1], expectedCols), t,
                             expectedCols, i + 1)

\* The loop that checks and pads each row of newAreaData; it returns at the
\* first row that is too long (tooLong is its index, -1 when there is none)
RECURSIVE PadColumns(_, _, _, _)
PadColumns(h, t, expectedCols, i) ==
    IF i >= Len(h.tables[t]) THEN [heap |-> h, tooLong |-> -1]
    ELSE LET r == h.tables[t][i + 1]
         IN IF Len(h.rows[r]) > expectedCols
            THEN [heap |-> h, tooLong |-> i]
            ELSE PadColumns(PadRow(h, r, expectedCols), t, expectedCols, i + 1)

\* mutant: the cells are written from the first column of the row on
RECURSIVE ReplaceCellsFromFirstColumn(_, _, _, _, _, _, _, _)
ReplaceCellsFromFirstColumn(h, newTable, newAreaData, targetRowIndex, fromColIndex, expectedCols, rowOffset, colOffset) ==
    IF colOffset >= expectedCols THEN h
    ELSE ReplaceCellsFromFirstColumn(
             SetCell(h, newTable, targetRowIndex, colOffset,
                     h.rows[h.tables[newAreaData][rowOffset + 1]][colOffset + 1]),
             newTable, newAreaData, targetRowIndex, fromColIndex, expectedCols,
             rowOffset, colOffset + 1)

\* for (colOffset ...) newTable[targetRowIndex][targetColIndex] = newAreaData[rowOffset][colOffset]
RECURSIVE ReplaceCells(_, _, _, _, _, _, _, _)
ReplaceCells(h, newTable, newAreaData, targetRowIndex, fromColIndex, expectedCols, rowOffset, colOffset) ==
    IF colOffset >= expectedCols THEN h
    ELSE ReplaceCells(
             SetCell(h, newTable, targetRowIndex, fromColIndex + colOffset,
                     h.rows[h.tables[newAreaData][rowOffset + 1]][colOffset + 1]),
             newTable, newAreaData, targetRowIndex, fromColIndex, expectedCols,
             rowOffset, colOffset + 1)

\* for (rowOffset ...): extend the target row, then replace its cells
RECURSIVE ReplaceRows(_, _, _, _, _, _, _, _, _)
ReplaceRows(h, newTable, newAreaData, fromRowIndex, fromColIndex, toColIndex, expectedRows, expectedCols, rowOffset) ==
    IF rowOffset >= expectedRows THEN h
    ELSE LET targetRowIndex == fromRowIndex + rowOffset
             h1 == GrowRow(h, h.tables[newTable][targetRowIndex + 1], toColIndex)
             h2 == ReplaceCells(h1, newTable, newAreaData, targetRowIndex,
                                fromColIndex, expectedCols, rowOffset, 0)
         IN ReplaceRows(h2, newTable, newAreaData, fromRowIndex, fromColIndex,
                        toColIndex, expectedRows, expectedCols, rowOffset + 1)

\* The values argument is an array of arrays of strings (the input schema of
\* the tool), so the Array.isArray branches are not taken.
toolReplaceArea(h, table, toolInput) ==
    LET fromCell == toolInput.from_cell
        toCell == toolInput.to_cell
        values == toolInput.values
        from == parseCellCoordinate(toUpperCase(fromCell))
        to == parseCellCoordinate(toUpperCase(toCell))
    IN IF from.threw
       THEN Failure(h, <<ErrorItem("Invalid from_cell", <<fromCell>>, from.error)>>)
       ELSE IF to.threw
       THEN Failure(h, <<ErrorItem("Invalid to_cell", <<toCell>>, to.error)>>)
       ELSE IF from.value.rowIndex > to.value.rowIndex
       THEN Failure(h, <<ErrorItem("from_cell row must be less than or equal to to_cell row",
                                   <<>>, <<>>)>>)
       ELSE IF from.value.colIndex > to.value.colIndex
       THEN Failure(h, <<ErrorItem("from_cell column must be less than or equal to to_cell column",
                                   <<>>, <<>>)>>)
       ELSE
         LET fromRowIndex == from.value.rowIndex
             fromColIndex == from.value.colIndex
             toRowIndex == to.value.rowIndex
             toColIndex == to.value.colIndex
             expectedRows == toRowIndex - fromRowIndex + 1
             expectedCols == toColIndex - fromColIndex + 1
             newAreaData == CopyValues(h, values)
         IN IF Len(newAreaData.heap.tables[newAreaData.ref]) > expectedRows
            THEN Failure(newAreaData.heap,
                         <<CountError("values has more rows than expected at most",
                                      <<fromCell, toCell>>, 0,
                                      Len(newAreaData.heap.tables[newAreaData.ref]),
                                      expectedRows)>>)
            ELSE
              LET padded == PadColumns(PadRows(newAreaData.heap, newAreaData.ref, expectedRows),
                                       newAreaData.ref, expectedCols, 0)
              IN IF padded.tooLong >= 0
                 THEN Failure(padded.heap,
                              <<CountError("Row in values has more columns than expected at most",
                                           <<fromCell, toCell>>, padded.tooLong + 1,
                                           Len(padded.heap.rows[
                                               padded.heap.tables[newAreaData.ref][padded.tooLong + 1]]),
                                           expectedCols)>>)
                 ELSE
                   LET newTable == structuredClone(padded.heap, table)
                       grown == GrowTable(newTable.heap, newTable.ref, toRowIndex)
                       replaced == ReplaceRows(grown, newTable.ref, newAreaData.ref,
                                               fromRowIndex, fromColIndex, toColIndex,
                                               expectedRows, expectedCols, 0)
                   IN Success(replaced, newTable.ref)

----------------------------------------------------------------------------
(* The diff of two tab-separated texts.  Positions are counted from 0 as   *)
(* in the code: ops[k] of the code is ops[k + 1] here, and lcs[i][j] is    *)
(* lcs[i + 1][j + 1].  A line of the output is its color and its text.     *)

undefined == -1

CONTEXT_LINES == 3

Equal(i, j, content) ==
    [type |-> "equal", oldLine |-> i, newLine |-> j, content |-> content]

Delete(i, content) ==
    [type |-> "delete", oldLine |-> i, newLine |-> undefined, content |-> content]

Insert(j, content) ==
    [type |-> "insert", oldLine |-> undefined, newLine |-> j, content |-> content]

\* The inner loop over j for one i >= 1: row holds lcs[i][0 .. Len(row) - 1]
RECURSIVE LcsRow(_, _, _, _)
LcsRow(prev, oldLine, newLines, row) ==
    LET j == Len(row)
    IN IF j > Len(newLines) THEN row
       ELSE LcsRow(prev, oldLine, newLines,
                   Append(row, IF j = 0 THEN 0
                               ELSE IF oldLine = newLines[j] THEN prev[j] + 1
                               ELSE IF prev[j + 1] >= row[j] THEN prev[j + 1]
                               ELSE row[j]))

\* The outer loop over i: lcs holds the rows 0 .. Len(lcs) - 1
RECURSIVE LcsTable(_, _, _)
LcsTable(oldLines, newLines, lcs) ==
    LET i == Len(lcs)
    IN IF i > Len(oldLines) THEN lcs
       ELSE LcsTable(oldLines, newLines,
                     Append(lcs, IF i = 0 THEN [j \in 1..(Len(newLines) + 1) |-> 0]
                                 ELSE LcsRow(lcs[i], oldLines[i], newLines, <<>>)))

\* mutant: the table is not consulted, an old line that does not match is
\* deleted
RECURSIVE BacktrackWithoutTable(_, _, _, _, _, _)
BacktrackWithoutTable(oldLines, newLines, lcs, i, j, ops) ==
    IF ~(i > 0 \/ j > 0) THEN ops
    ELSE IF i > 0 /\ j > 0 /\ oldLines[i] = newLines[j]
    THEN BacktrackWithoutTable(oldLines, newLines, lcs, i - 1, j - 1,
                               <<Equal(i - 1, j - 1, oldLines[i])>> \o ops)
    ELSE IF i > 0
    THEN BacktrackWithoutTable(oldLines, newLines, lcs, i - 1, j,
                               <<Delete(i - 1, oldLines[i])>> \o ops)
    ELSE BacktrackWithoutTable(oldLines, newLines, lcs, i, j - 1,
                               <<Insert(j - 1, newLines[j])>> \o ops)

\* mutant: a deletion is preferred when lcs[i - 1][j] >= lcs[i][j - 1]
RECURSIVE BacktrackPreferDelete(_, _, _, _, _, _)
BacktrackPreferDelete(oldLines, newLines, lcs, i, j, ops) ==
    IF ~(i > 0 \/ j > 0) THEN ops
    ELSE IF i > 0 /\ j > 0 /\ oldLines[i] = newLines[j]
    THEN BacktrackPreferDelete(oldLines, newLines, lcs, i - 1, j - 1,
                               <<Equal(i - 1, j - 1, oldLines[i])>> \o ops)
    ELSE IF i > 0 /\ (j = 0 \/ lcs[i][j + 1] >= lcs[i + 1][j])
    THEN BacktrackPreferDelete(oldLines, newLines, lcs, i - 1, j,
                               <<Delete(i - 1, oldLines[i])>> \o ops)
    ELSE BacktrackPreferDelete(oldLines, newLines, lcs, i, j - 1,
                               <<Insert(j - 1, newLines[j])>> \o ops)

\* The backtracking loop from (i, j); unshift puts an operation in front
RECURSIVE Backtrack(_, _, _, _, _, _)
Backtrack(oldLines, newLines, lcs, i, j, ops) ==
    IF ~(i > 0 \/ j > 0) THEN ops
    ELSE IF i > 0 /\ j > 0 /\ oldLines[i] = newLines[j]
    THEN Backtrack(oldLines, newLines, lcs, i - 1, j - 1,
                   <<Equal(i - 1, j - 1, oldLines[i])>> \o ops)
    ELSE IF j > 0 /\ (i = 0 \/ lcs[i + 1][j] >= lcs[i][j + 1])
    THEN Backtrack(oldLines, newLines, lcs, i, j - 1,
                   <<Insert(j - 1, newLines[j])>> \o ops)
    ELSE IF i > 0
    THEN Backtrack(oldLines, newLines, lcs, i - 1, j,
                   <<Delete(i - 1, oldLines[i])>> \o ops)
    ELSE ops

\* The edit script of two arrays of lines
EditScript(oldLines, newLines) ==
    Backtrack(oldLines, newLines, LcsTable(oldLines, newLines, <<>>),
              Len(oldLines), Len(newLines), <<>>)

\* The while loop that extends a hunk over nearby changes
RECURSIVE ExtendHunk(_, _)
ExtendHunk(ops, hunkEnd) ==
    IF ~(hunkEnd < Len(ops)) THEN hunkEnd
    ELSE LET searchEnd == IF hunkEnd + CONTEXT_LINES * 2 + 1 <= Len(ops)
                          THEN hunkEnd + CONTEXT_LINES * 2 + 1 ELSE Len(ops)
             changes == {k \in hunkEnd..(searchEnd - 1) : ops[k + 1].type # "equal"}
         IN IF changes = {} THEN hunkEnd
            ELSE ExtendHunk(ops, (CHOOSE k \in changes : \A c \in changes : c <= k) + 1)

\* mutant: only deletions open a hunk
RECURSIVE GroupHunksOfDeletions(_, _, _)
GroupHunksOfDeletions(ops, idx, hunks) ==
    IF ~(idx < Len(ops)) THEN hunks
    ELSE IF ops[idx + 1].type # "delete" THEN GroupHunksOfDeletions(ops, idx + 1, hunks)
    ELSE LET hunkStart == IF idx - CONTEXT_LINES >= 0 THEN idx - CONTEXT_LINES ELSE 0
             extended == ExtendHunk(ops, idx)
             hunkEnd == IF extended + CONTEXT_LINES <= Len(ops) - 1
                        THEN extended + CONTEXT_LINES ELSE Len(ops) - 1
         IN GroupHunksOfDeletions(ops, hunkEnd + 1,
                Append(hunks, [start |-> hunkStart, end |-> hunkEnd]))

\* mutant: the start and the end of a hunk are not kept inside the script
RECURSIVE GroupHunksUnclamped(_, _, _)
GroupHunksUnclamped(ops, idx, hunks) ==
    IF ~(idx < Len(ops)) THEN hunks
    ELSE IF ops[idx + 1].type = "equal" THEN GroupHunksUnclamped(ops, idx + 1, hunks)
    ELSE LET hunkStart == idx - CONTEXT_LINES
             hunkEnd == ExtendHunk(ops, idx) + CONTEXT_LINES
             merged == IF Len(hunks) > 0 /\ hunkStart <= hunks[Len(hunks)].end + 1
                       THEN [hunks EXCEPT ![Len(hunks)].end = hunkEnd]
                       ELSE Append(hunks, [start |-> hunkStart, end |-> hunkEnd])
         IN GroupHunksUnclamped(ops, hunkEnd + 1, merged)

\* The for loop over idx that groups the operations into hunks
RECURSIVE GroupHunks(_, _, _)
GroupHunks(ops, idx, hunks) ==
    IF ~(idx < Len(ops)) THEN hunks
    ELSE IF ops[idx + 1].type = "equal" THEN GroupHunks(ops, idx + 1, hunks)
    ELSE LET hunkStart == IF idx - CONTEXT_LINES >= 0 THEN idx - CONTEXT_LINES ELSE 0
             extended == ExtendHunk(ops, idx)
             hunkEnd == IF extended + CONTEXT_LINES <= Len(ops) - 1
                        THEN extended + CONTEXT_LINES ELSE Len(ops) - 1
             merged == IF Len(hunks) > 0 /\ hunkStart <= hunks[Len(hunks)].end + 1
                       THEN [hunks EXCEPT ![Len(hunks)].end = hunkEnd]
                       ELSE Append(hunks, [start |-> hunkStart, end |-> hunkEnd])
         IN GroupHunks(ops, hunkEnd + 1, merged)

\* The numbers of a hunk header: first old and new line, and their counts
HunkHeader(hunkOps) ==
    LET olds == {k \in 1..Len(hunkOps) : hunkOps[k].oldLine # undefined}
        news == {k \in 1..Len(hunkOps) : hunkOps[k].newLine # undefined}
        first(ks) == CHOOSE k \in ks : \A other \in ks : k <= other
    IN [oldStart |-> IF olds = {} THEN -1 ELSE hunkOps[first(olds)].oldLine,
        oldCount |-> Cardinality(olds),
        newStart |-> IF news = {} THEN -1 ELSE hunkOps[first(news)].newLine,
        newCount |-> Cardinality(news)]

Colored(color, text) == [color |-> color, text |-> text]

\* `@@ -${oldStart + 1},${oldCount} +${newStart + 1},${newCount} @@`
HeaderLine(h) ==
    Colored("cyan", <<"@", "@", " ", "-">> \o String(h.oldStart + 1) \o <<",">>
                    \o String(h.oldCount) \o <<" ", "+">> \o String(h.newStart + 1)
                    \o <<",">> \o String(h.newCount) \o <<" ", "@", "@">>)

\* One line of a hunk body, its tabs made visible
BodyLine(op) ==
    LET visibleContent == replaceAll(op.content, <<TAB>>, <<"→", TAB>>)
    IN IF op.type = "delete" THEN Colored("red", <<"-">> \o visibleContent)
       ELSE IF op.type = "insert" THEN Colored("green", <<"+">> \o visibleContent)
       ELSE Colored("none", <<" ">> \o visibleContent)

\* Array.prototype.slice(start, end): a negative position counts from the
\* end, and both are kept inside the array
slice(array, start, end) ==
    LET inside(position) ==
            IF position < 0
            THEN (IF Len(array) + position < 0 THEN 0 ELSE Len(array) + position)
            ELSE IF position > Len(array) THEN Len(array) ELSE position
    IN SubSeq(array, inside(start) + 1, inside(end))

\* The output lines of the hunks from the k-th on
RECURSIVE FormatHunks(_, _, _)
FormatHunks(ops, hunks, k) ==
    IF k > Len(hunks) THEN <<>>
    ELSE LET hunkOps == slice(ops, hunks[k].start, hunks[k].end + 1)
         IN <<HeaderLine(HunkHeader(hunkOps))>>
            \o [n \in 1..Len(hunkOps) |-> BodyLine(hunkOps[n])]
            \o FormatHunks(ops, hunks, k + 1)

NoChanges ==
    <<Colored("none", <<"N", "o", " ", "c", "h", "a", "n", "g", "e", "s", ".">>)>>

\* The result is the array of output lines, joined by line feeds in the
\* code; ops and hunks are the locals the output is made from.  oldText
\* and newText are the parameters oldTSV and newTSV.
computeDiff(oldText, newText) ==
    IF oldText = newText
    THEN [ops |-> <<>>, hunks |-> <<>>, output |-> NoChanges]
    ELSE LET oldLines == split(oldText, LF)
             newLines == split(newText, LF)
             ops == EditScript(oldLines, newLines)
             hunks == GroupHunks(ops, 0, <<>>)
         IN [ops |-> ops, hunks |-> hunks,
             output |-> IF Len(hunks) = 0 THEN NoChanges
                        ELSE FormatHunks(ops, hunks, 1)]

----------------------------------------------------------------------------
(* The session variables when a function is applied outside a session      *)

NULL == "null"

\* The working file has not been read in this turn, or the read failed
NoRead == [ok |-> FALSE, content |-> <<>>]

Handlers == {"main", "signal"}

NoSession ==
    /\ pc = "none"
    /\ originalFilePath = NULL
    /\ originalFile = <<>>
    /\ workingFile = <<>>
    /\ workingFileExists = FALSE
    /\ targetFiles = <<>>
    /\ currentTable = 0
    /\ lastKnownDiskContent = <<>>
    /\ messages = <<>>
    /\ workingTable = 0
    /\ hasSuccessfulChanges = FALSE
    /\ errors = <<>>
    /\ diskContentRead = NoRead
    /\ callLog = <<>>
    /\ oldTSV = <<>>
    /\ newTSV = <<>>
    /\ confirmResult = NULL
    /\ handlingSignal = FALSE
    /\ exitPc = [who \in Handlers |-> "idle"]
    /\ exitTSV = [who \in Handlers |-> <<>>]
    /\ saveConfirm = [who \in Handlers |-> NULL]

----------------------------------------------------------------------------
(* The stream transform that trims the text sections of the model's output.*)
(* A chunk is its type and its text (for a chunk that is not a text-delta, *)
(* what it carries); the stream is the record of the two variables of the  *)
(* closure and of the chunks enqueued so far.                              *)

TextDelta(text) == [type |-> "text-delta", text |-> text]

\* bufferedChunk = null
NoChunk == [type |-> NULL, text |-> <<>>]

NewStream == [isStartOfTextSection |-> TRUE, bufferedChunk |-> NoChunk, enqueued |-> <<>>]

enqueueBuffered(stream, atEnd) ==
    IF stream.bufferedChunk # NoChunk /\ stream.bufferedChunk.type = "text-delta"
    THEN LET text == IF atEnd THEN trimEnd(stream.bufferedChunk.text)
                     ELSE stream.bufferedChunk.text
         IN [stream EXCEPT !.enqueued = Append(@, [stream.bufferedChunk EXCEPT !.text = text]),
                           !.bufferedChunk = NoChunk]
    ELSE stream

transform(stream, chunk) ==
    IF chunk.type = "text-delta"
    THEN LET flushed == enqueueBuffered(stream, FALSE)
             processedText == IF flushed.isStartOfTextSection THEN trimStart(chunk.text)
                              ELSE chunk.text
         IN [flushed EXCEPT !.isStartOfTextSection = FALSE,
                            !.bufferedChunk = [chunk EXCEPT !.text = processedText]]
    ELSE LET flushed == enqueueBuffered(stream, TRUE)
         IN [flushed EXCEPT !.isStartOfTextSection = TRUE,
                            !.enqueued = Append(@, chunk)]

flush(stream) == enqueueBuffered(stream, TRUE)

----------------------------------------------------------------------------
(* The raw-mode line editor.  A string is the sequence of its UTF-16 code  *)
(* units, as buffer.length counts them; buf is the sequence of the n bytes *)
(* a read delivered (the empty sequence when the read returned null).  The *)
(* writes to the terminal are left out.                                    *)

\* TextDecoder.decode of the bytes of one well-formed UTF-8 character: the
\* code point, as two surrogates when it is beyond U+FFFF; the decoder
\* removes a byte order mark (U+FEFF) at the start of its input
decode(bytes) ==
    LET point == IF Len(bytes) = 1 THEN bytes[1]
                 ELSE IF Len(bytes) = 2 THEN (bytes[1] - 192) * 64 + (bytes[2] - 128)
                 ELSE IF Len(bytes) = 3
                 THEN (bytes[1] - 224) * 4096 + (bytes[2] - 128) * 64 + (bytes[3] - 128)
                 ELSE (bytes[1] - 240) * 262144 + (bytes[2] - 128) * 4096
                      + (bytes[3] - 128) * 64 + (bytes[4] - 128)
    IN IF point = 65279 THEN <<>>
       ELSE IF point >= 65536
       THEN <<55296 + ((point - 65536) \div 1024), 56320 + ((point - 65536) % 1024)>>
       ELSE <<point>>

\* The code units the class \s of a regular expression matches
IsSpaceUnit(unit) ==
    unit \in (9..13) \cup {32, 160, 5760, 8232, 8233, 8239, 8287, 12288, 65279} \cup (8192..8202)

\* buffer = buffer.slice(0, cursorPos) + char + buffer.slice(cursorPos); cursorPos++
InsertChar(line, char) ==
    [line EXCEPT !.buffer = slice(line.buffer, 0, line.cursorPos) \o char
                             \o slice(line.buffer, line.cursorPos, Len(line.buffer)),
                 !.cursorPos = @ + 1]

\* The word deletion of Alt+Backspace, Ctrl+Backspace and Ctrl+W:
\* beforeCursor.match(/\S+\s*$/) is the last run of non-space units before
\* the cursor with the spaces after it
DeleteWord(line) ==
    LET beforeCursor == slice(line.buffer, 0, line.cursorPos)
        words == {k \in 1..Len(beforeCursor) : ~IsSpaceUnit(beforeCursor[k])}
        last == CHOOSE k \in words : \A other \in words : other <= k
        start == CHOOSE k \in 1..last :
                    /\ \A j \in k..last : j \in words
                    /\ k = 1 \/ (k - 1) \notin words
        deleteCount == Len(beforeCursor) - start + 1
    IN IF line.cursorPos > 0 /\ words # {}
       THEN [line EXCEPT !.buffer = slice(line.buffer, 0, line.cursorPos - deleteCount)
                                    \o slice(line.buffer, line.cursorPos, Len(line.buffer)),
                         !.cursorPos = @ - deleteCount]
       ELSE line

Return(line, result) == [line EXCEPT !.pc = "returned", !.raw = FALSE, !.result = result]

\* if (code === 27 && n >= 3 && buf[1] === 91): the keys sent as ESC [
HandleEscape(line, buf) ==
    LET n == Len(buf)
        escCode == buf[3]
    IN IF escCode = 51 /\ n >= 4 /\ buf[4] = 126
       THEN (IF line.cursorPos < Len(line.buffer)
             THEN [line EXCEPT !.buffer = slice(line.buffer, 0, line.cursorPos)
                                          \o slice(line.buffer, line.cursorPos + 1, Len(line.buffer))]
             ELSE line)
       ELSE IF escCode = 68
       THEN (IF line.cursorPos > 0 THEN [line EXCEPT !.cursorPos = @ - 1] ELSE line)
       ELSE IF escCode = 67
       THEN (IF line.cursorPos < Len(line.buffer) THEN [line EXCEPT !.cursorPos = @ + 1]
             ELSE line)
       ELSE IF escCode = 72 \/ (escCode = 49 /\ n >= 4 /\ buf[4] = 126)
       THEN (IF line.cursorPos > 0 THEN [line EXCEPT !.cursorPos = 0] ELSE line)
       ELSE IF escCode = 70 \/ (escCode = 52 /\ n >= 4 /\ buf[4] = 126)
       THEN (IF Len(line.buffer) - line.cursorPos > 0
             THEN [line EXCEPT !.cursorPos = Len(line.buffer)] ELSE line)
       ELSE line

\* One round of the while loop: a read of n bytes and the branch for them;
\* leaving the try block switches raw mode off
HandleKey(line, buf) ==
    LET n == Len(buf)
        code == buf[1]
    IN IF n = 0 THEN Return(line, "buffer")
       ELSE IF code = 3 THEN Return(line, NULL)
       ELSE IF code = 13 \/ code = 10 THEN Return(line, "buffer")
       ELSE IF code = 27 /\ n >= 3 /\ buf[2] = 91 THEN HandleEscape(line, buf)
       ELSE IF code = 27 /\ n >= 2 /\ (buf[2] = 127 \/ buf[2] = 8) THEN DeleteWord(line)
       ELSE IF code = 8 \/ code = 31 THEN DeleteWord(line)
       ELSE IF code = 23 THEN DeleteWord(line)
       ELSE IF code = 1
       THEN (IF line.cursorPos > 0 THEN [line EXCEPT !.cursorPos = 0] ELSE line)
       ELSE IF code = 5
       THEN (IF Len(line.buffer) - line.cursorPos > 0
             THEN [line EXCEPT !.cursorPos = Len(line.buffer)] ELSE line)
       ELSE IF code = 21
       THEN (IF line.cursorPos > 0
             THEN [line EXCEPT !.buffer = slice(line.buffer, line.cursorPos, Len(line.buffer)),
                               !.cursorPos = 0]
             ELSE line)
       ELSE IF code = 11
       THEN (IF line.cursorPos < Len(line.buffer)
             THEN [line EXCEPT !.buffer = slice(line.buffer, 0, line.cursorPos)]
             ELSE line)
       ELSE IF code = 127 \/ code = 8
       THEN (IF line.cursorPos > 0
             THEN [line EXCEPT !.buffer = slice(line.buffer, 0, line.cursorPos - 1)
                                          \o slice(line.buffer, line.cursorPos, Len(line.buffer)),
                               !.cursorPos = @ - 1]
             ELSE line)
       ELSE IF code >= 32 /\ code <= 126 THEN InsertChar(line, decode(slice(buf, 0, 1)))
       ELSE IF code >= 128
       THEN LET byteLength == IF code >= 240 THEN 4 ELSE IF code >= 224 THEN 3
                              ELSE IF code >= 192 THEN 2 ELSE 1
            IN IF n >= byteLength THEN InsertChar(line, decode(slice(buf, 0, byteLength)))
               ELSE line
       ELSE line

----------------------------------------------------------------------------
(* Pure functions of the codec, applied to bounded inputs                  *)

MaxIndex == 710

MaxLabelLen == 2

MaxRefLen == 4

LabelAlphabet == {"A", "B", "Z", "a", "1", " "}

RefAlphabet == {"A", "Z", "b", "0", "1", "2", LF, "-"}

ValidLabels == StringsUpTo({Upper[i] : i \in 1..26}, MaxLabelLen) \ {<<>>}

InitCodec ==
    /\ \/ input \in [type : {"index"}, arg : 0..MaxIndex]
       \/ input \in [type : {"label"}, arg : ValidLabels]
       \/ input \in [type : {"label"}, arg : StringsUpTo(LabelAlphabet, MaxLabelLen)]
       \/ input \in [type : {"cell"}, arg : StringsUpTo(RefAlphabet, MaxRefLen)]
    /\ applied = <<>>
    /\ value = input.arg
    /\ heap = [tables |-> <<>>, rows |-> <<>>]
    /\ NoSession

ApplyIndexToColumnLabel ==
    /\ \/ applied = <<>> /\ input.type = "index"
       \/ applied = <<"columnLabelToIndex">>
    /\ value' = indexToColumnLabel(value)
    /\ applied' = Append(applied, "indexToColumnLabel")
    /\ UNCHANGED <<input, heap, sessionVars>>

ApplyColumnLabelToIndex ==
    /\ \/ applied = <<>> /\ input.type = "label"
       \/ applied = <<"indexToColumnLabel">>
    /\ value' = columnLabelToIndex(value)
    /\ applied' = Append(applied, "columnLabelToIndex")
    /\ UNCHANGED <<input, heap, sessionVars>>

ApplyParseCellCoordinate ==
    /\ applied = <<>> /\ input.type = "cell"
    /\ value' = parseCellCoordinate(value)
    /\ applied' = <<"parseCellCoordinate">>
    /\ UNCHANGED <<input, heap, sessionVars>>

NextCodec ==
    \/ ApplyIndexToColumnLabel
    \/ ApplyColumnLabelToIndex
    \/ ApplyParseCellCoordinate

SpecCodec == InitCodec /\ [][NextCodec]_vars

----------------------------------------------------------------------------
(* Pure functions of the table model, applied to bounded inputs            *)

MaxRows == 2

MaxCols == 2

MaxTextLen == 5

CellValues == {<<>>, <<"a">>, <<TAB>>, <<LF>>}

TextAlphabet == {"a", TAB, LF}

RowsUpTo(cells, n) == UNION {[1..k -> cells] : k \in 0..n}

TablesUpTo(cells, nRows, nCols) ==
    UNION {[1..k -> RowsUpTo(cells, nCols)] : k \in 0..nRows}

InitTSV ==
    /\ \/ input \in [type : {"table"}, arg : TablesUpTo(CellValues, MaxRows, MaxCols)]
       \/ input \in [type : {"text"}, arg : StringsUpTo(TextAlphabet, MaxTextLen)]
    /\ applied = <<>>
    /\ value = input.arg
    /\ heap = [tables |-> <<>>, rows |-> <<>>]
    /\ NoSession

ApplyTableToTSV ==
    /\ \/ applied = <<>> /\ input.type = "table"
       \/ applied = <<"parseTSV">>
    /\ value' = tableToTSV(value)
    /\ applied' = Append(applied, "tableToTSV")
    /\ UNCHANGED <<input, heap, sessionVars>>

ApplyParseTSV ==
    /\ \/ applied = <<>> /\ input.type = "text"
       \/ applied = <<"tableToTSV">>
    /\ value' = parseTSV(value)
    /\ applied' = Append(applied, "parseTSV")
    /\ UNCHANGED <<input, heap, sessionVars>>

NextTSV ==
    \/ ApplyTableToTSV
    \/ ApplyParseTSV

SpecTSV == InitTSV /\ [][NextTSV]_vars

----------------------------------------------------------------------------
(* The labeled rendering, applied to bounded tables                        *)

MaxMdRows == 2

MaxMdCols == 2

MarkdownCells == {<<>>, <<"a">>, <<"-">>}

InitMarkdown ==
    /\ input \in [type : {"table"}, arg : TablesUpTo(MarkdownCells, MaxMdRows, MaxMdCols)]
    /\ applied = <<>>
    /\ value = input.arg
    /\ heap = [tables |-> <<>>, rows |-> <<>>]
    /\ NoSession

ApplyTableToMarkdown ==
    /\ applied = <<>>
    /\ value' = tableToMarkdown(value)
    /\ applied' = <<"tableToMarkdown">>
    /\ UNCHANGED <<input, heap, sessionVars>>

ApplyMarkdownToTable ==
    /\ applied = <<"tableToMarkdown">>
    /\ value' = markdownToTable(value)
    /\ applied' = Append(applied, "markdownToTable")
    /\ UNCHANGED <<input, heap, sessionVars>>

NextMarkdown ==
    \/ ApplyTableToMarkdown
    \/ ApplyMarkdownToTable

SpecMarkdown == InitMarkdown /\ [][NextMarkdown]_vars

----------------------------------------------------------------------------
(* The diff, applied to bounded pairs of texts                             *)

MaxDiffLines == 3

DiffLines == {<<>>, <<"a">>, <<"b">>}

\* The texts of at most MaxDiffLines lines, the last of which may be empty
DiffTexts ==
    {join(lines, <<LF>>) : lines \in UNION {[1..k -> DiffLines] : k \in 1..MaxDiffLines}}

\* The pair of texts that differ in their second line, each ending in a
\* line feed
DiffExamples ==
    {<<<<"a", LF, "b", LF, "c", LF>>, <<"a", LF, "X", LF, "c", LF>>>>}

MaxLongLines == 12

MaxChanges == 2

\* A text of MaxLongLines different lines, paired with the text that results
\* from one kind of change at up to MaxChanges of its lines: the line is
\* replaced by "x", removed, or "x" is inserted before it
RECURSIVE ChangedLines(_, _, _)
ChangedLines(k, changed, kind) ==
    IF k > MaxLongLines THEN <<>>
    ELSE (IF k \notin changed THEN <<<<Upper[k]>>>>
          ELSE IF kind = "replace" THEN <<<<"x">>>>
          ELSE IF kind = "delete" THEN <<>>
          ELSE <<<<"x">>, <<Upper[k]>>>>)
         \o ChangedLines(k + 1, changed, kind)

LongPairs ==
    {<<join(ChangedLines(1, {}, "replace"), <<LF>>), join(ChangedLines(1, changed, kind), <<LF>>)>> :
        changed \in {c \in SUBSET (1..MaxLongLines) : Cardinality(c) <= MaxChanges},
        kind \in {"replace", "delete", "insert"}}

InitDiff ==
    /\ input \in [type : {"texts"},
                  arg : (DiffTexts \X DiffTexts) \cup DiffExamples \cup LongPairs]
    /\ applied = <<>>
    /\ value = input.arg
    /\ heap = [tables |-> <<>>, rows |-> <<>>]
    /\ NoSession

ApplyComputeDiff ==
    /\ applied = <<>>
    /\ value' = computeDiff(value[1], value[2])
    /\ applied' = <<"computeDiff">>
    /\ UNCHANGED <<input, heap, sessionVars>>

NextDiff == ApplyComputeDiff

SpecDiff == InitDiff /\ [][NextDiff]_vars

----------------------------------------------------------------------------
(* The stream transform, fed bounded sequences of chunks and then flushed. *)
(* value is the stream and the chunks not yet written to it.               *)

MaxChunks == 4

Chunks ==
    {TextDelta(<<" ">>), TextDelta(<<"a">>), TextDelta(<<" ", "a", " ">>),
     [type |-> "tool-call", text |-> <<"t">>]}

InitTrim ==
    /\ input \in [type : {"chunks"}, arg : UNION {[1..k -> Chunks] : k \in 0..MaxChunks}]
    /\ applied = <<>>
    /\ value = [stream |-> NewStream, pending |-> input.arg]
    /\ heap = [tables |-> <<>>, rows |-> <<>>]
    /\ NoSession

\* The next chunk is written to the stream
ApplyTransform ==
    /\ value.pending # <<>>
    /\ value' = [stream |-> transform(value.stream, Head(value.pending)),
                 pending |-> Tail(value.pending)]
    /\ applied' = Append(applied, "transform")
    /\ UNCHANGED <<input, heap, sessionVars>>

\* The stream is closed after the last chunk
ApplyFlush ==
    /\ value.pending = <<>>
    /\ ~IsIn(applied, "flush")
    /\ value' = [value EXCEPT !.stream = flush(value.stream)]
    /\ applied' = Append(applied, "flush")
    /\ UNCHANGED <<input, heap, sessionVars>>

NextTrim ==
    \/ ApplyTransform
    \/ ApplyFlush

SpecTrim == InitTrim /\ [][NextTrim]_vars

----------------------------------------------------------------------------
(* The line editor, fed the reads a terminal can deliver.  value is the    *)
(* state of one call of readLine.                                          *)

MaxBufferLen == 3

\* What one read delivers: a, space, e with acute accent, a character
\* beyond U+FFFF, the byte order mark, the first byte of a character alone,
\* Backspace, Delete, the arrows, Home, End, Ctrl+A, E, U, K, W,
\* Alt+Backspace, Ctrl+Backspace, Enter, Ctrl+C and the end of the input
Keys ==
    {<<97>>, <<32>>, <<195, 169>>, <<240, 159, 152, 128>>, <<239, 187, 191>>, <<195>>,
     <<127>>, <<27, 91, 51, 126>>, <<27, 91, 68>>, <<27, 91, 67>>, <<27, 91, 72>>,
     <<27, 91, 70>>, <<1>>, <<5>>, <<21>>, <<11>>, <<23>>, <<27, 127>>, <<8>>,
     <<13>>, <<3>>, <<>>}

InitReadLine ==
    /\ input = [type |-> "keys"]
    /\ applied = <<>>
    /\ value = [pc |-> "start", raw |-> FALSE, buffer |-> <<>>, cursorPos |-> 0,
                result |-> NULL]
    /\ heap = [tables |-> <<>>, rows |-> <<>>]
    /\ NoSession

\* Deno.stdin.setRaw(true) succeeds, or it throws and a line is read
\* without editing
ApplySetRaw ==
    /\ value.pc = "start"
    /\ \E isTerminal \in {TRUE, FALSE} :
          value' = IF isTerminal THEN [value EXCEPT !.pc = "reading", !.raw = TRUE]
                   ELSE [value EXCEPT !.pc = "returned"]
    /\ applied' = applied
    /\ UNCHANGED <<input, heap, sessionVars>>

\* A read completes and its round of the loop runs
ApplyReadKey ==
    /\ value.pc = "reading"
    /\ \E buf \in Keys :
          /\ Len(HandleKey(value, buf).buffer) <= MaxBufferLen
          /\ HandleKey(value, buf).cursorPos <= MaxBufferLen + 1
          /\ value' = HandleKey(value, buf)
          /\ applied' = <<buf>>
    /\ UNCHANGED <<input, heap, sessionVars>>

NextReadLine ==
    \/ ApplySetRaw
    \/ ApplyReadKey

SpecReadLine == InitReadLine /\ [][NextReadLine]_vars

----------------------------------------------------------------------------
(* Mutation primitives, applied once to bounded tables and arguments.      *)
(* input.arg is the caller's table as it was before the call and input.ref *)
(* the reference the primitive is given; applied holds the call.           *)

MaxToolRows == 2

MaxToolCols == 2

MaxEdits == 2

ToolCells == {<<>>, <<"a">>}

EditRefs == {<<"A", "1">>, <<"b", "2">>, <<"C", "5">>, <<"1", "A">>, <<"A", "0">>}

EditValues == {<<"x">>, <<>>}

EditBatches ==
    UNION {[1..k -> [cell : EditRefs, value : EditValues]] : k \in 0..MaxEdits}

AreaFromRefs == {<<"A", "1">>, <<"B", "2">>, <<"1", "A">>}

AreaToRefs == {<<"A", "1">>, <<"A", "2">>, <<"B", "2">>, <<"c", "3">>, <<"A", "0">>}

AreaValues ==
    TablesUpTo({<<"x">>}, MaxToolRows, MaxToolCols) \cup {<< <<<<"x">>, <<"y">>>> >>}

SearchStrings == {<<>>, <<"a">>, <<"A">>, <<"|">>, <<"1">>, <<" ">>, <<"z", "z">>,
                  <<"a", " ", "|">>, <<"T", "o", "t", "a", "l">>}

ReplacementStrings == {<<"x">>, <<>>, <<"$", "&">>, <<"x", " ", "|", " ", "y">>}

Renderings ==
    {tableToMarkdown(t) : t \in TablesUpTo({<<"x">>}, 1, MaxToolCols)}
    \cup {<<"x">>, <<"|", " ", "1", " ", "|", " ", "x", " ", "|">>,
          <<"|", LF, "|", LF, "|", "9", "|", "x", "|", "y", "|">>}

Total == <<"T", "o", "t", "a", "l">>

\* Tables in which a word occurs twice
TablesWithTotals == {<< <<Total, <<"a">>>>, <<Total, <<>>>> >>}

InitTools ==
    /\ input \in [type : {"table"}, ref : {1},
                  arg : TablesUpTo(ToolCells, MaxToolRows, MaxToolCols)
                        \cup TablesWithTotals]
    /\ applied = <<>>
    /\ value = input.arg
    /\ heap = NewTable(EmptyHeap, input.arg).heap
    /\ NoSession

CallStrReplace ==
    /\ applied = <<>>
    /\ \E toolInput \in [old_str : SearchStrings, new_str : ReplacementStrings] :
          LET call == toolStrReplace(heap, input.ref, toolInput)
          IN /\ heap' = call.heap
             /\ value' = call.result
             /\ applied' = <<[tool |-> "str_replace", args |-> toolInput]>>
    /\ UNCHANGED <<input, sessionVars>>

CallReplaceAll ==
    /\ applied = <<>>
    /\ \E toolInput \in [new_table : Renderings] :
          LET call == toolReplaceAll(heap, input.ref, toolInput)
          IN /\ heap' = call.heap
             /\ value' = call.result
             /\ applied' = <<[tool |-> "replace_all", args |-> toolInput]>>
    /\ UNCHANGED <<input, sessionVars>>

CallEditCells ==
    /\ applied = <<>>
    /\ \E toolInput \in [edits : EditBatches] :
          LET call == toolEditCells(heap, input.ref, toolInput)
          IN /\ heap' = call.heap
             /\ value' = call.result
             /\ applied' = <<[tool |-> "edit_cells", args |-> toolInput]>>
    /\ UNCHANGED <<input, sessionVars>>

\* The values argument is an array object of the caller: it is put on the
\* heap, and the primitive is given the reference
CallReplaceArea ==
    /\ applied = <<>>
    /\ \E from \in AreaFromRefs, to \in AreaToRefs, vals \in AreaValues :
          LET values == NewTable(heap, vals)
              toolInput == [from_cell |-> from, to_cell |-> to, values |-> values.ref]
              call == toolReplaceArea(values.heap, input.ref, toolInput)
          IN /\ heap' = call.heap
             /\ value' = call.result
             /\ applied' = <<[tool |-> "replace_area", args |-> toolInput,
                              values |-> vals]>>
    /\ UNCHANGED <<input, sessionVars>>

NextTools ==
    \/ CallStrReplace
    \/ CallReplaceAll
    \/ CallEditCells
    \/ CallReplaceArea

SpecTools == InitTools /\ [][NextTools]_vars

----------------------------------------------------------------------------
(* The session: the interactive loop of main, the SIGINT listener and      *)
(* handleExit.  An action is the code between two awaits.                  *)

MaxTurns == 2

MaxCalls == 2

\* Contents of the file the session is started on
InitialContents == {<<"a", LF>>, <<"a", TAB, "a">>}

\* Contents an editor outside the program may give the working file
ExternalContents == {<<"b", LF>>}

\* Arguments of the tool calls the model may make in a turn
SessionSearches == {[old_str |-> <<"a">>, new_str |-> <<"x">>]}

SessionRenderings == {[new_table |-> tableToMarkdown(<< <<<<"b">>>> >>)]}

SessionEdits ==
    {[edits |-> <<[cell |-> <<"B", "2">>, value |-> <<"y">>]>>],
     [edits |-> <<[cell |-> <<"A", "1">>, value |-> <<"y">>],
                  [cell |-> <<"1", "A">>, value |-> <<"y">>]>>]}

SessionAreas ==
    {[from_cell |-> <<"A", "1">>, to_cell |-> <<"B", "1">>, values |-> << <<<<"x">>>> >>],
     [from_cell |-> <<"A", "1">>, to_cell |-> <<"A", "1">>,
      values |-> << <<<<"x">>, <<"y">>>> >>]}

\* Objects that no variable refers to are dropped and the others renumbered
\* in the order the roots reach them (the garbage collector of the runtime)
RECURSIVE Distinct(_)
Distinct(seq) ==
    IF seq = <<>> THEN <<>>
    ELSE LET init == Distinct(SubSeq(seq, 1, Len(seq) - 1))
         IN IF IsIn(init, seq[Len(seq)]) THEN init ELSE Append(init, seq[Len(seq)])

RECURSIVE Concat(_)
Concat(seqs) == IF seqs = <<>> THEN <<>> ELSE seqs[1] \o Concat(Tail(seqs))

LiveTables(roots) == Distinct(SelectSeq(roots, LAMBDA t : t # 0))

LiveRows(h, roots) ==
    Distinct(Concat([i \in 1..Len(LiveTables(roots)) |-> h.tables[LiveTables(roots)[i]]]))

Moved(roots, t) == IF t = 0 THEN 0 ELSE IndexOf(LiveTables(roots), t)

Collect(h, roots) ==
    LET liveTables == LiveTables(roots)
        liveRows == LiveRows(h, roots)
    IN [tables |-> [i \in 1..Len(liveTables) |->
                      [j \in 1..Len(h.tables[liveTables[i]]) |->
                         IndexOf(liveRows, h.tables[liveTables[i]][j])]],
        rows |-> [i \in 1..Len(liveRows) |-> h.rows[liveRows[i]]]]

\* heap', currentTable' and workingTable' when after the step the heap is h
\* and the two variables refer to current and working
Refer(h, current, working) ==
    /\ heap' = Collect(h, <<current, working>>)
    /\ currentTable' = Moved(<<current, working>>, current)
    /\ workingTable' = Moved(<<current, working>>, working)

\* The try block of a turn is left: its variables go out of scope
EndTurn ==
    /\ Refer(heap, currentTable, 0)
    /\ hasSuccessfulChanges' = FALSE
    /\ errors' = <<>>
    /\ callLog' = <<>>
    /\ oldTSV' = <<>>
    /\ newTSV' = <<>>
    /\ diskContentRead' = NoRead

\* loadInitialTable and the first lines of main
Init ==
    /\ input = [type |-> "session"]
    /\ applied = <<>>
    /\ value = <<>>
    /\ \E content \in InitialContents :
          /\ originalFilePath \in {"file", NULL}
          /\ originalFile = IF originalFilePath = NULL THEN <<>> ELSE content
          /\ workingFile = content
          /\ heap = NewTable(EmptyHeap, parseTSV(content)).heap
          /\ lastKnownDiskContent = tableToTSV(parseTSV(content))
    /\ workingFileExists = TRUE
    /\ targetFiles = <<>>
    /\ currentTable = 1
    /\ pc = "prompt"
    /\ messages = <<>>
    /\ workingTable = 0
    /\ hasSuccessfulChanges = FALSE
    /\ errors = <<>>
    /\ diskContentRead = NoRead
    /\ callLog = <<>>
    /\ oldTSV = <<>>
    /\ newTSV = <<>>
    /\ confirmResult = NULL
    /\ handlingSignal = FALSE
    /\ exitPc = [who \in Handlers |-> "idle"]
    /\ exitTSV = [who \in Handlers |-> <<>>]
    /\ saveConfirm = [who \in Handlers |-> NULL]

Running == pc \notin {"done", "exited"}

TurnsStarted == Cardinality({i \in 1..Len(messages) : messages[i] = "user"})

\* mutant: handleExit is given the working table while a turn is running
ExitTableWorking == IF workingTable # 0 THEN workingTable ELSE currentTable

\* The table handleExit is called with
ExitTable == currentTable

\* handleExit up to its first await: currentTSV is computed from the table
\* it is given, then the original file is read
CallHandleExit(who) ==
    /\ exitTSV' = [exitTSV EXCEPT ![who] = tableToTSV(Deref(heap, ExitTable))]
    /\ exitPc' = [exitPc EXCEPT ![who] = "reading"]

\* readLine returned null (Ctrl+C) or an empty prompt: handleExit is called
PromptExit ==
    /\ pc = "prompt"
    /\ pc' = "exiting"
    /\ CallHandleExit("main")
    /\ UNCHANGED <<pureVars, heap, fileVars, currentTable, lastKnownDiskContent,
                   messages, turnVars, handlingSignal, saveConfirm>>

\* readLine returned a prompt: the working file is read
PromptTurn ==
    /\ pc = "prompt"
    /\ TurnsStarted < MaxTurns
    /\ pc' = "reloading"
    /\ UNCHANGED <<pureVars, heap, fileVars, currentTable, lastKnownDiskContent,
                   messages, turnVars, exitVars>>

\* mutant: the table is reloaded when the file no longer parses to it
ReloadsWhenTableDiffers(read) ==
    read.ok /\ parseTSV(read.content) # Deref(heap, currentTable)

\* if (diskContent !== lastKnownDiskContent), inside the try of the read
Reloads(read) == read.ok /\ read.content # lastKnownDiskContent

\* The read of the working file completed or failed; the table is reloaded
\* when the content changed, the messages are pushed, the working table is
\* cloned and the model is called
StartTurn ==
    /\ pc = "reloading"
    /\ \E readOk \in {TRUE, FALSE} :
          LET read == IF readOk /\ workingFileExists
                      THEN [ok |-> TRUE, content |-> workingFile] ELSE NoRead
              loaded == IF Reloads(read) THEN NewTable(heap, parseTSV(read.content))
                        ELSE [heap |-> heap, ref |-> currentTable]
              clone == structuredClone(loaded.heap, loaded.ref)
          IN /\ diskContentRead' = read
             /\ lastKnownDiskContent' = IF Reloads(read) THEN read.content
                                        ELSE lastKnownDiskContent
             /\ Refer(clone.heap, loaded.ref, clone.ref)
    /\ messages' = (IF messages = <<>> THEN <<"system">> ELSE messages) \o <<"user">>
    /\ hasSuccessfulChanges' = FALSE
    /\ errors' = <<>>
    /\ callLog' = <<>>
    /\ confirmResult' = NULL
    /\ pc' = "streaming"
    /\ UNCHANGED <<pureVars, fileVars, oldTSV, newTSV, exitVars>>

\* mutant: every call is applied to the committed table
ReceivedTableCommitted == currentTable

\* The table an execute handler passes to its primitive
ReceivedTable == workingTable

\* The body shared by the four execute handlers: the result is adopted as the
\* working table when the call succeeded, else its error is recorded
Execute(tool, toolInput, call) ==
    LET result == call.result
        adopted == result.success /\ result.proposedTable # 0
    IN /\ pc = "streaming"
       /\ Len(callLog) < MaxCalls
       /\ Refer(call.heap, currentTable,
                IF adopted THEN result.proposedTable ELSE workingTable)
       /\ hasSuccessfulChanges' = (hasSuccessfulChanges \/ adopted)
       /\ errors' = IF adopted THEN errors
                    ELSE Append(errors, [tool |-> tool, error |-> result.error])
       /\ callLog' = Append(callLog,
                        [tool |-> tool, args |-> toolInput,
                         received |-> Deref(heap, ReceivedTable),
                         result |-> result,
                         produced |-> IF result.proposedTable # 0
                                      THEN Deref(call.heap, result.proposedTable)
                                      ELSE <<>>])
       /\ UNCHANGED <<pureVars, pc, fileVars, lastKnownDiskContent, messages,
                      oldTSV, newTSV, confirmResult, diskContentRead, exitVars>>

ExecuteStrReplace ==
    \E args \in SessionSearches :
        Execute("str_replace", args, toolStrReplace(heap, ReceivedTable, args))

ExecuteReplaceAll ==
    \E args \in SessionRenderings :
        Execute("replace_all", args, toolReplaceAll(heap, ReceivedTable, args))

ExecuteEditCells ==
    \E args \in SessionEdits :
        Execute("edit_cells", args, toolEditCells(heap, ReceivedTable, args))

ExecuteReplaceArea ==
    \E args \in SessionAreas :
        LET values == NewTable(heap, args.values)
        IN Execute("replace_area", args,
                   toolReplaceArea(values.heap, ReceivedTable,
                                   [args EXCEPT !.values = values.ref]))

\* The stream completed: the cumulative diff is shown and the user is asked,
\* or, without a successful change, the turn ends
StreamFinished ==
    /\ pc = "streaming"
    /\ IF hasSuccessfulChanges
       THEN /\ oldTSV' = tableToTSV(Deref(heap, currentTable))
            /\ newTSV' = tableToTSV(Deref(heap, workingTable))
            /\ pc' = "confirming"
            /\ UNCHANGED <<heap, currentTable, workingTable, messages,
                           hasSuccessfulChanges, errors, callLog, diskContentRead>>
       ELSE /\ messages' = Append(messages, "assistant")
            /\ pc' = "prompt"
            /\ EndTurn
    /\ UNCHANGED <<pureVars, fileVars, lastKnownDiskContent, confirmResult, exitVars>>

\* mutant: the working table of the failed turn is kept as the committed one
StreamFailedCommitting ==
    /\ pc = "streaming"
    /\ messages' = SubSeq(messages, 1, Len(messages) - 1)
    /\ pc' = "prompt"
    /\ Refer(heap, workingTable, 0)
    /\ hasSuccessfulChanges' = FALSE
    /\ errors' = <<>>
    /\ callLog' = <<>>
    /\ oldTSV' = <<>>
    /\ newTSV' = <<>>
    /\ diskContentRead' = NoRead
    /\ UNCHANGED <<pureVars, fileVars, lastKnownDiskContent, confirmResult, exitVars>>

\* The model call or the stream threw: the user message is removed
StreamFailed ==
    /\ pc = "streaming"
    /\ messages' = SubSeq(messages, 1, Len(messages) - 1)
    /\ pc' = "prompt"
    /\ EndTurn
    /\ UNCHANGED <<pureVars, fileVars, lastKnownDiskContent, confirmResult, exitVars>>

\* mutant: everything but a plain no accepts
AcceptedUnlessNo(answer) == answer # "no"

\* else if (confirmResult)
Accepted(answer) == answer = "yes"

\* 'Accept changes?' was answered yes or no, or interrupted (null)
AnswerAccept ==
    /\ pc = "confirming"
    /\ \E answer \in {"yes", "no", NULL} :
          /\ confirmResult' = answer
          /\ IF Accepted(answer)
             THEN /\ Refer(heap, workingTable, workingTable)
                  /\ pc' = "writing"
                  /\ UNCHANGED <<messages, hasSuccessfulChanges, errors, callLog,
                                 oldTSV, newTSV, diskContentRead>>
             ELSE /\ EndTurn
                  /\ messages' = Append(messages, "assistant")
                  /\ pc' = "prompt"
    /\ UNCHANGED <<pureVars, fileVars, lastKnownDiskContent, exitVars>>

\* The write of the working file completed or failed; the turn ends
WriteWorkingFile ==
    /\ pc = "writing"
    /\ \E writeOk \in {TRUE, FALSE} :
          IF writeOk
          THEN /\ workingFile' = newTSV
               /\ workingFileExists' = TRUE
               /\ lastKnownDiskContent' = newTSV
          ELSE UNCHANGED <<workingFile, workingFileExists, lastKnownDiskContent>>
    /\ messages' = Append(messages, "assistant")
    /\ pc' = "prompt"
    /\ EndTurn
    /\ UNCHANGED <<pureVars, originalFilePath, originalFile, targetFiles,
                   confirmResult, exitVars>>

\* handleExit returns (its variables go out of scope): main leaves its loop
\* to remove the working file, the SIGINT listener calls Deno.exit(0)
ExitReturns(who) ==
    /\ exitPc' = [exitPc EXCEPT ![who] = "returned"]
    /\ exitTSV' = [exitTSV EXCEPT ![who] = <<>>]
    /\ pc' = IF who = "signal" THEN "exited" ELSE "cleanup"

\* The original file was read (an absent or unreadable file reads as ''):
\* the user is asked whether to save, or there is nothing to save
ExitRead(who) ==
    /\ pc # "exited"
    /\ exitPc[who] = "reading"
    /\ \E readOk \in {TRUE, FALSE} :
          LET diskContent == IF originalFilePath # NULL /\ readOk THEN originalFile ELSE <<>>
          IN IF \/ originalFilePath # NULL /\ exitTSV[who] # diskContent
                \/ originalFilePath = NULL /\ trim(exitTSV[who]) # <<>>
             THEN /\ exitPc' = [exitPc EXCEPT ![who] = "confirming"]
                  /\ UNCHANGED <<pc, exitTSV>>
             ELSE ExitReturns(who)
    /\ UNCHANGED <<pureVars, heap, fileVars, currentTable, lastKnownDiskContent,
                   messages, turnVars, handlingSignal, saveConfirm>>

\* The save prompt was answered yes or no, or interrupted (null)
ExitAnswerSave(who) ==
    /\ pc # "exited"
    /\ exitPc[who] = "confirming"
    /\ \E answer \in {"yes", "no", NULL} :
          /\ saveConfirm' = [saveConfirm EXCEPT ![who] = answer]
          /\ IF answer = "yes"
             THEN /\ exitPc' = [exitPc EXCEPT ![who] =
                                  IF originalFilePath # NULL THEN "writing" ELSE "naming"]
                  /\ UNCHANGED <<pc, exitTSV>>
             ELSE ExitReturns(who)
    /\ UNCHANGED <<pureVars, heap, fileVars, currentTable, lastKnownDiskContent,
                   messages, turnVars, handlingSignal>>

\* The file name prompt was answered, or interrupted (null)
ExitAnswerFilename(who) ==
    /\ pc # "exited"
    /\ exitPc[who] = "naming"
    /\ \E filename \in {"name", NULL} :
          IF filename = NULL
          THEN ExitReturns(who)
          ELSE /\ exitPc' = [exitPc EXCEPT ![who] = "writingTarget"]
               /\ UNCHANGED <<pc, exitTSV>>
    /\ UNCHANGED <<pureVars, heap, fileVars, currentTable, lastKnownDiskContent,
                   messages, turnVars, handlingSignal, saveConfirm>>

\* Deno.writeTextFile(originalFilePath, currentTSV) completed or failed
ExitWriteOriginal(who) ==
    /\ pc # "exited"
    /\ exitPc[who] = "writing"
    /\ \E writeOk \in {TRUE, FALSE} :
          originalFile' = IF writeOk THEN exitTSV[who] ELSE originalFile
    /\ ExitReturns(who)
    /\ UNCHANGED <<pureVars, heap, originalFilePath, workingFile, workingFileExists,
                   targetFiles, currentTable, lastKnownDiskContent, messages,
                   turnVars, handlingSignal, saveConfirm>>

\* Deno.writeTextFile(targetFile, currentTSV) completed or failed
ExitWriteTarget(who) ==
    /\ pc # "exited"
    /\ exitPc[who] = "writingTarget"
    /\ \E writeOk \in {TRUE, FALSE} :
          targetFiles' = IF writeOk THEN Append(targetFiles, exitTSV[who]) ELSE targetFiles
    /\ ExitReturns(who)
    /\ UNCHANGED <<pureVars, heap, originalFilePath, originalFile, workingFile,
                   workingFileExists, currentTable, lastKnownDiskContent, messages,
                   turnVars, handlingSignal, saveConfirm>>

\* SIGINT is delivered: the listener, unless it is already running, calls
\* handleExit with the committed table
Sigint ==
    /\ Running
    /\ ~handlingSignal
    /\ handlingSignal' = TRUE
    /\ CallHandleExit("signal")
    /\ UNCHANGED <<pureVars, heap, pc, fileVars, currentTable, lastKnownDiskContent,
                   messages, turnVars, saveConfirm>>

\* After the loop: the working file is removed (a failure is ignored)
Cleanup ==
    /\ pc = "cleanup"
    /\ \E removeOk \in {TRUE, FALSE} :
          workingFileExists' = IF removeOk THEN FALSE ELSE workingFileExists
    /\ pc' = "done"
    /\ UNCHANGED <<pureVars, heap, originalFilePath, originalFile, workingFile,
                   targetFiles, currentTable, lastKnownDiskContent, messages,
                   turnVars, exitVars>>

\* The user changes the working file in an editor while the session runs
ExternalEdit ==
    /\ Running
    /\ workingFileExists
    /\ \E content \in ExternalContents :
          /\ workingFile # content
          /\ workingFile' = content
    /\ UNCHANGED <<pureVars, heap, pc, originalFilePath, originalFile,
                   workingFileExists, targetFiles, currentTable,
                   lastKnownDiskContent, messages, turnVars, exitVars>>

Next ==
    \/ PromptExit
    \/ PromptTurn
    \/ StartTurn
    \/ ExecuteStrReplace
    \/ ExecuteReplaceAll
    \/ ExecuteEditCells
    \/ ExecuteReplaceArea
    \/ StreamFinished
    \/ StreamFailed
    \/ AnswerAccept
    \/ WriteWorkingFile
    \/ \E who \in Handlers :
          \/ ExitRead(who)
          \/ ExitAnswerSave(who)
          \/ ExitAnswerFilename(who)
          \/ ExitWriteOriginal(who)
          \/ ExitWriteTarget(who)
    \/ Sigint
    \/ Cleanup
    \/ ExternalEdit

Spec == Init /\ [][Next]_vars

----------------------------------------------------------------------------
(* Properties of the coordinate codec                                      *)

IsValidLabel(label) ==
    label # <<>> /\ \A i \in 1..Len(label) : IsIn(Upper, label[i])

RECURSIVE Power(_, _)
Power(base, n) == IF n = 0 THEN 1 ELSE base * Power(base, n - 1)

RECURSIVE SumTo(_, _)
SumTo(f, n) == IF n = 0 THEN 0 ELSE f[n] + SumTo(f, n - 1)

\* Sum of (charCode(letter_i) - 'A' + 1) * 26^(n-1-i), minus 1
PositionalIndex(label) ==
    SumTo([i \in 1..Len(label) |->
              (charCodeAt(label[i]) - 64) * Power(26, Len(label) - i)],
          Len(label)) - 1

\* C6: indexToColumnLabel and columnLabelToIndex are inverses of one another
\* on the labels of letters A-Z and on the non-negative integers, and
\* indexToColumnLabel maps 0, 25, 26, 701, 702 to A, Z, AA, ZZ, AAA.
C6_CodecInverse ==
    /\ (input.type = "label" /\ IsValidLabel(input.arg)
          /\ applied = <<"columnLabelToIndex", "indexToColumnLabel">>)
       => value = input.arg
    /\ (input.type = "index"
          /\ applied = <<"indexToColumnLabel", "columnLabelToIndex">>)
       => value = input.arg
    /\ (input.type = "index" /\ applied = <<"indexToColumnLabel">>)
       => /\ IsValidLabel(value)
          /\ input.arg = 0 => value = <<"A">>
          /\ input.arg = 25 => value = <<"Z">>
          /\ input.arg = 26 => value = <<"A", "A">>
          /\ input.arg = 701 => value = <<"Z", "Z">>
          /\ input.arg = 702 => value = <<"A", "A", "A">>

C6_Witness ==
    /\ input = [type |-> "index", arg |-> 702]
    /\ applied = <<"indexToColumnLabel", "columnLabelToIndex">>
    /\ value = 702

\* The part of a cell reference before its trailing digits
RECURSIVE LetterPart(_)
LetterPart(cell) ==
    IF cell # <<>> /\ IsIn(Digits, cell[Len(cell)])
    THEN LetterPart(SubSeq(cell, 1, Len(cell) - 1))
    ELSE cell

\* C7 as stated: columnLabelToIndex returns no index for the empty string
\* or for a string with a character that is not a letter A-Z.
C7_FailsOnInvalidLabel ==
    (input.type = "label" /\ ~IsValidLabel(input.arg)
       /\ applied = <<"columnLabelToIndex">>)
    => value \notin Int

\* C7 amended: columnLabelToIndex does not validate; it returns -1 for the
\* empty string and the positional sum minus 1 for any other string.  A
\* label that is empty or has a non-letter is rejected before it, by the
\* pattern of parseCellCoordinate, which throws.
C7_ValidationIsInParseCellCoordinate ==
    /\ (input.type = "label" /\ ~IsValidLabel(input.arg)
          /\ applied = <<"columnLabelToIndex">>)
       => /\ value \in Int
          /\ value = PositionalIndex(input.arg)
          /\ input.arg = <<>> => value = -1
    /\ (input.type = "cell" /\ ~IsValidLabel(LetterPart(input.arg))
          /\ applied = <<"parseCellCoordinate">>)
       => /\ value.threw
          /\ value.error = <<"Invalid cell coordinate", input.arg>>

C7_Witness ==
    /\ input = [type |-> "cell", arg |-> <<"b", "1">>]
    /\ applied = <<"parseCellCoordinate">>
    /\ value.threw

\* A reference of the shape ^[A-Z]+\d+$ with k letters
HasCellShape(cell, k) ==
    /\ k >= 1 /\ k < Len(cell)
    /\ \A i \in 1..k : IsIn(Upper, cell[i])
    /\ \A i \in (k + 1)..Len(cell) : IsIn(Digits, cell[i])

DecimalValue(digits) ==
    SumTo([i \in 1..Len(digits) |->
              (IndexOf(Digits, digits[i]) - 1) * Power(10, Len(digits) - i)],
          Len(digits))

\* C8: parseCellCoordinate succeeds exactly when the reference has the shape
\* ^[A-Z]+\d+$ and its number is at least 1; then rowIndex is the number
\* minus 1 and colIndex is columnLabelToIndex of the letters; in every other
\* case it throws and returns no address.
C8_ParseCellCoordinate ==
    (input.type = "cell" /\ applied = <<"parseCellCoordinate">>)
    => LET cell == input.arg
           valid == \E k \in 1..Len(cell) :
                       /\ HasCellShape(cell, k)
                       /\ DecimalValue(SubSeq(cell, k + 1, Len(cell))) >= 1
       IN /\ value.threw = ~valid
          /\ value.threw => value.value = <<>> /\ value.error[2] = cell
          /\ ~value.threw =>
                \E k \in 1..Len(cell) :
                   /\ HasCellShape(cell, k)
                   /\ value.value.rowIndex
                        = DecimalValue(SubSeq(cell, k + 1, Len(cell))) - 1
                   /\ value.value.colIndex
                        = columnLabelToIndex(SubSeq(cell, 1, k))

C8_Witness ==
    /\ input = [type |-> "cell", arg |-> <<"Z", "1", "0">>]
    /\ applied = <<"parseCellCoordinate">>
    /\ value = Returned([colIndex |-> 25, rowIndex |-> 9])

----------------------------------------------------------------------------
(* Properties of the tab-separated serialization                           *)

HasDelimiter(table) ==
    \E r \in 1..Len(table) : \E c \in 1..Len(table[r]) :
        IsIn(table[r][c], TAB) \/ IsIn(table[r][c], LF)

\* Dropping a final row that consists of one empty cell
TrailingRowNormalized(table) ==
    IF Len(table) > 0 /\ Len(table[Len(table)]) = 1
                      /\ table[Len(table)][1] = <<>>
    THEN SubSeq(table, 1, Len(table) - 1)
    ELSE table

\* The table with every zero-length row replaced by a row of one empty cell
EmptyRowsAsOneCell(table) ==
    [r \in 1..Len(table) |-> IF table[r] = <<>> THEN << <<>> >> ELSE table[r]]

\* C9 as stated: for every table without delimiters in its cells, also one
\* with empty rows, parseTSV(tableToTSV(t)) is t up to trailing-row
\* normalization.
C9_RoundTripAnyTable ==
    (input.type = "table" /\ ~HasDelimiter(input.arg)
       /\ applied = <<"tableToTSV", "parseTSV">>)
    => TrailingRowNormalized(value) = TrailingRowNormalized(input.arg)

\* C9 amended: for every table without tab or line break in its cells,
\* parseTSV(tableToTSV(t)) is, up to trailing-row normalization, t with each
\* zero-length row replaced by a row of one empty cell; so it is t up to
\* that normalization when t has no zero-length row (rows of one empty cell
\* and the empty table included).
C9_RoundTripNoEmptyRow ==
    (input.type = "table" /\ ~HasDelimiter(input.arg)
       /\ applied = <<"tableToTSV", "parseTSV">>)
    => /\ TrailingRowNormalized(value)
            = TrailingRowNormalized(EmptyRowsAsOneCell(input.arg))
       /\ (\A r \in 1..Len(input.arg) : Len(input.arg[r]) >= 1)
          => TrailingRowNormalized(value) = TrailingRowNormalized(input.arg)

C9_Witness ==
    /\ input = [type |-> "table", arg |-> << <<<<"a">>, <<>>>>, << <<>> >> >>]
    /\ applied = <<"tableToTSV", "parseTSV">>
    /\ value = input.arg

EndsInOneLineTerminator(text) ==
    /\ Len(text) >= 1
    /\ text[Len(text)] = LF
    /\ Len(text) >= 2 => text[Len(text) - 1] # LF

\* C10: for every text that ends in exactly one line terminator,
\* tableToTSV(parseTSV(x)) = x; parseTSV yields one row per terminated line
\* (the empty line after the final terminator is dropped).
C10_TextRoundTrip ==
    (input.type = "text" /\ EndsInOneLineTerminator(input.arg))
    => /\ applied = <<"parseTSV", "tableToTSV">> => value = input.arg
       /\ applied = <<"parseTSV">>
          => Len(value) = Cardinality({i \in 1..Len(input.arg) : input.arg[i] = LF})

C10_Witness ==
    /\ input = [type |-> "text", arg |-> <<"a", LF, TAB, "a", LF>>]
    /\ applied = <<"parseTSV", "tableToTSV">>
    /\ value = input.arg

----------------------------------------------------------------------------
(* Properties of the labeled rendering                                     *)

\* No '|', no line break, no whitespace at either end
IsPlainCell(cell) ==
    /\ \A i \in 1..Len(cell) : cell[i] \notin {"|", LF}
    /\ trim(cell) = cell

HasPlainCells(t) == \A r \in 1..Len(t) : \A c \in 1..Len(t[r]) : IsPlainCell(t[r][c])

Width(t) ==
    IF Len(t) = 0 THEN 0
    ELSE CHOOSE n \in 0..MaxMdCols + 1 :
            /\ \E r \in 1..Len(t) : Len(t[r]) = n
            /\ \A r \in 1..Len(t) : Len(t[r]) <= n

\* t with every row extended by empty cells to the length of the longest row
Padded(t) ==
    [r \in 1..Len(t) |->
       [c \in 1..Width(t) |-> IF c <= Len(t[r]) THEN t[r][c] ELSE <<>>]]

\* C11 as stated: markdownToTable(tableToMarkdown(t)) = t for every table of
\* plain cells.
C11_RoundTripAnyTable ==
    applied = <<"tableToMarkdown", "markdownToTable">> /\ HasPlainCells(input.arg)
    => value = input.arg

\* C11 amended: for every table t of plain cells,
\* markdownToTable(tableToMarkdown(t)) is t with every row padded with empty
\* cells to the length of the longest row, hence t itself when all rows of t
\* have the same length.
C11_RoundTripPadded ==
    applied = <<"tableToMarkdown", "markdownToTable">> /\ HasPlainCells(input.arg)
    => /\ value = Padded(input.arg)
       /\ (\A r \in 1..Len(input.arg) : Len(input.arg[r]) = Width(input.arg))
          => value = input.arg

C11_Witness ==
    /\ applied = <<"tableToMarkdown", "markdownToTable">>
    /\ input.arg = << <<<<"a">>, <<>>>>, <<<<"-">>, <<"a">>>> >>
    /\ value = input.arg

----------------------------------------------------------------------------
(* Properties of the mutation primitives                                   *)

\* C1: after a call of any of the four primitives, successful or not, the
\* caller's table has the rows and cells it had before the call, and after
\* toolReplaceArea the caller's values array is unchanged as well.
C1_InputsNotMutated ==
    applied # <<>>
    => /\ Deref(heap, input.ref) = input.arg
       /\ applied[1].tool = "replace_area"
          => Deref(heap, applied[1].args.values) = applied[1].values

C1_Witness ==
    /\ applied # <<>>
    /\ applied[1].tool = "replace_area"
    /\ value.success
    /\ input.arg = << <<<<"a">>>> >>
    /\ applied[1].values = << <<<<"x">>>> >>
    /\ Deref(heap, value.proposedTable) = << <<<<"x">>, <<>>>>, <<<<>>, <<>>>> >>

----------------------------------------------------------------------------
(* Properties of the session                                               *)

InTurn == pc \in {"streaming", "confirming", "writing"}

Committed == Deref(heap, currentTable)

Working == Deref(heap, workingTable)

\* The step of an execute handler, and the call it logged
IsCallStep == Len(callLog') = Len(callLog) + 1

LastCall == callLog'[Len(callLog')]

\* C2: within a turn the committed table changes only in the step that
\* follows the answer yes to 'Accept changes?', where it becomes the working
\* table; the program writes the working file only after that step, with the
\* serialization of the table just committed; after the answer no, after an
\* interrupted prompt and after a turn without a successful call, the
\* committed table and the working file are as before and the working table
\* is dropped.
C2_Step ==
    /\ InTurn /\ Committed' # Committed
       => /\ pc = "confirming"
          /\ confirmResult' = "yes"
          /\ Committed' = Working
    /\ pc = "confirming" /\ confirmResult' = "yes"
       => /\ pc' = "writing"
          /\ Committed' = Working
          /\ tableToTSV(Committed') = newTSV
    /\ workingFile' # workingFile
       => \/ ExternalEdit
          \/ /\ pc = "writing"
             /\ confirmResult = "yes"
             /\ workingFile' = tableToTSV(Committed)
    /\ pc \in {"streaming", "confirming"} /\ pc' = "prompt"
       => /\ pc = "confirming" => confirmResult' \in {"no", NULL}
          /\ Committed' = Committed
          /\ workingFile' = workingFile
          /\ workingTable' = 0

C2_CommitOnlyOnAccept == [][C2_Step]_vars

\* An accepted batch is committed and written to the working file
C2_Witness ==
    /\ pc = "prompt"
    /\ confirmResult = "yes"
    /\ workingFile = tableToTSV(Committed)
    /\ workingFile \notin InitialContents \cup ExternalContents
    /\ originalFile \in InitialContents

\* C3: the original file changes only in the write of handleExit, after the
\* answer yes to its save prompt, and the content written is the
\* serialization handleExit computed when it was called, which is the
\* serialization of the table committed at that moment, also when the
\* SIGINT listener calls it while a turn holds a working table with edits.
C3_Step ==
    /\ originalFile' # originalFile
       => \E who \in Handlers :
             /\ exitPc[who] = "writing"
             /\ exitPc'[who] = "returned"
             /\ saveConfirm[who] = "yes"
             /\ originalFilePath # NULL
             /\ originalFile' = exitTSV[who]
    /\ \A who \in Handlers :
          exitPc[who] = "idle" /\ exitPc'[who] # "idle"
          => /\ exitPc'[who] = "reading"
             /\ exitTSV'[who] = tableToTSV(Committed)
    /\ \A who \in Handlers :
          exitPc[who] \in {"reading", "confirming", "writing"}
          /\ exitPc'[who] \in {"reading", "confirming", "writing"}
          => exitTSV'[who] = exitTSV[who]

C4_Step ==
    IsCallStep /\ ~LastCall.result.success
    => /\ LastCall.result.proposedTable = 0
       /\ LastCall.result.error # <<>>
       /\ Working' = Working
       /\ Committed' = Committed
       /\ hasSuccessfulChanges' = hasSuccessfulChanges
       /\ errors' = Append(errors, [tool |-> LastCall.tool,
                                    error |-> LastCall.result.error])
       /\ pc' = "streaming"

C4_FailureIsLocal == [][C4_Step]_vars

\* A failed call was followed by a call that succeeded on the table the
\* failed call was given
C4_Witness ==
    /\ pc = "streaming"
    /\ Len(callLog) = 2
    /\ ~callLog[1].result.success
    /\ callLog[2].result.success
    /\ callLog[2].received = callLog[1].received
    /\ Len(errors) = 1
    /\ Working = callLog[2].produced
    /\ Working # Committed

\* The table produced by the last successful call among the first k calls of
\* the turn, and the clone the turn starts from when there is none
LastProduced(k) ==
    LET successes == {j \in 1..k : callLog[j].result.success}
    IN IF successes = {} THEN Committed
       ELSE callLog[CHOOSE j \in successes : \A i \in successes : i <= j].produced

\* C5: while the calls of a turn are executed and while the user is asked,
\* every call in the log received the table produced by the last successful
\* call before it (the clone of the committed table when there is none), the
\* working table is the one produced by the last successful call, and the two
\* sides of the diff shown are the serializations of the committed table and
\* of that working table.
C5_SequentialOnWorkingTable ==
    pc \in {"streaming", "confirming"}
    => /\ \A k \in 1..Len(callLog) : callLog[k].received = LastProduced(k - 1)
       /\ Working = LastProduced(Len(callLog))
       /\ workingTable # currentTable
       /\ pc = "confirming"
          => /\ oldTSV = tableToTSV(Committed)
             /\ newTSV = tableToTSV(LastProduced(Len(callLog)))

\* Two successful calls, the second applied to the result of the first, and
\* the diff of the batch shown
C5_Witness ==
    /\ pc = "confirming"
    /\ Len(callLog) = 2
    /\ callLog[1].result.success
    /\ callLog[2].result.success
    /\ callLog[1].produced # Committed
    /\ callLog[2].received = callLog[1].produced
    /\ callLog[2].produced # callLog[1].produced
    /\ newTSV = tableToTSV(callLog[2].produced)
    /\ oldTSV # newTSV

\* C22: in the step that ends the process, by the end of main or by the exit
\* of the SIGINT listener, the working file is gone, unless the step is the
\* removal itself and the file system refused it
C22_Step ==
    pc \notin {"done", "exited"} /\ pc' \in {"done", "exited"}
    => ~workingFileExists' \/ pc = "cleanup"

C22_WorkingFileRemovedAtExit == [][C22_Step]_vars

\* C23: the model is called only after the working file was read, which
\* follows every prompt that starts a turn; when the read succeeded with a
\* content other than the last known one, the committed table becomes
\* parseTSV of that content, which becomes the last known content; when the
\* content is the same or the read failed, both are unchanged; the working
\* table of the turn is a copy of the committed table after the reload
C23_Step ==
    /\ pc' = "streaming" /\ pc # "streaming" => pc = "reloading"
    /\ pc = "prompt" /\ pc' \notin {"prompt", "exiting", "exited"} => pc' = "reloading"
    /\ pc = "reloading" /\ pc' # "reloading" /\ pc' # "exited"
       => /\ pc' = "streaming"
          /\ diskContentRead'.ok => diskContentRead'.content = workingFile
          /\ IF diskContentRead'.ok /\ diskContentRead'.content # lastKnownDiskContent
             THEN /\ Committed' = parseTSV(diskContentRead'.content)
                  /\ lastKnownDiskContent' = diskContentRead'.content
             ELSE /\ Committed' = Committed
                  /\ lastKnownDiskContent' = lastKnownDiskContent
          /\ Working' = Committed'

C23_ReloadBeforeEveryTurn == [][C23_Step]_vars

\* A turn started on a table reloaded from a file changed outside the program
C23_Witness ==
    /\ pc = "streaming"
    /\ callLog = <<>>
    /\ diskContentRead.ok
    /\ diskContentRead.content \in ExternalContents
    /\ lastKnownDiskContent = diskContentRead.content
    /\ Committed = parseTSV(diskContentRead.content)
    /\ TurnsStarted = 2

\* C26: the step in which a turn is abandoned because the model call or the
\* stream threw (the stream ends without an assistant message) leaves the
\* committed table as it was when the model was called, which is the table
\* the first tool call received, drops the working table, writes no file,
\* removes the user message and leads to the next prompt
C26_Step ==
    pc = "streaming" /\ pc' \notin {"streaming", "confirming", "exited"}
    /\ messages' # Append(messages, "assistant")
    => /\ Committed' = Committed
       /\ callLog # <<>> => Committed' = callLog[1].received
       /\ workingTable' = 0
       /\ workingFile' = workingFile
       /\ lastKnownDiskContent' = lastKnownDiskContent
       /\ messages[Len(messages)] = "user"
       /\ messages' = SubSeq(messages, 1, Len(messages) - 1)
       /\ pc' = "prompt"

C26_FailedTurnAbandoned == [][C26_Step]_vars

\* The first turn failed: the history holds the system message only, at the
\* next prompt, with the table and the file the session started with
C26_Witness ==
    /\ pc = "prompt"
    /\ messages = <<"system">>
    /\ workingTable = 0
    /\ workingFile \in InitialContents
    /\ Committed = parseTSV(workingFile)

----------------------------------------------------------------------------
(* Properties of the single primitives                                     *)

Called(tool) == applied # <<>> /\ applied[1].tool = tool

\* The text s read from position i on, every occurrence of the non-empty
\* oldStr met on the way replaced by text
RECURSIVE ReplacedFrom(_, _, _, _)
ReplacedFrom(s, oldStr, text, i) ==
    LET starts == {j \in i..Len(s) : StartsWithAt(s, oldStr, j)}
    IN IF starts = {} THEN SubSeq(s, i, Len(s))
       ELSE LET j == CHOOSE k \in starts : \A m \in starts : k <= m
            IN SubSeq(s, i, j - 1) \o text \o ReplacedFrom(s, oldStr, text, j + Len(oldStr))

\* The empty search text occurs before every character and at the end
Interleaved(s, text) ==
    [k \in 1..(Len(s) + (Len(s) + 1) * Len(text)) |->
       LET q == (k - 1) \div (Len(text) + 1)
           r == (k - 1) % (Len(text) + 1)
       IN IF r < Len(text) THEN text[r + 1] ELSE s[q + 1]]

Replaced(s, oldStr, text) ==
    IF oldStr = <<>> THEN Interleaved(s, text) ELSE ReplacedFrom(s, oldStr, text, 1)

OccursTwice(s, oldStr) ==
    IF oldStr = <<>> THEN Len(s) >= 1
    ELSE \E i, j \in 1..Len(s) :
            /\ i + Len(oldStr) <= j
            /\ StartsWithAt(s, oldStr, i)
            /\ StartsWithAt(s, oldStr, j)

IsTableLine(line) == Len(line) >= 2 /\ line[1] = "|" /\ line[Len(line)] = "|"

IsLabeledRendering(markdown) ==
    LET lines == split(markdown, LF)
    IN \/ markdown = tableToMarkdown(<<>>)
       \/ /\ Len(lines) >= 2
          /\ IsTableLine(lines[1])
          /\ IsTableLine(lines[2]) /\ IsSeparatorLine(lines[2])
          /\ \A k \in 3..Len(lines) :
                /\ IsTableLine(lines[k])
                /\ Len(split(lines[k], "|")) >= 3
                /\ trim(split(lines[k], "|")[2]) = String(k - 2)

\* C14: toolReplaceAll fails, with an error and without a table, when
\* new_table is not a labeled rendering, and succeeds otherwise.
C14_MalformedRenderingFails ==
    Called("replace_all")
    => IF IsLabeledRendering(applied[1].args.new_table)
       THEN value.success /\ value.proposedTable # 0
       ELSE ~value.success /\ value.error # <<>> /\ value.proposedTable = 0

\* A cell reference that parses, whatever the case of its letters, and the
\* 1-based row and column it addresses
IsAddress(cell) ==
    \E k \in 1..Len(cell) :
       /\ HasCellShape(toUpperCase(cell), k)
       /\ DecimalValue(SubSeq(cell, k + 1, Len(cell))) >= 1

AddressRow(cell) == DecimalValue(SubSeq(cell, Len(LetterPart(cell)) + 1, Len(cell)))

AddressColumn(cell) == PositionalIndex(toUpperCase(LetterPart(cell))) + 1

\* C15: when some cell reference of the batch does not parse, toolEditCells
\* returns failure without a table, its error has one item for each
\* reference that failed, in the order of the batch and naming it, and the
\* table it was given is as before; when every reference parses it returns
\* success with a table.
C15_EditCellsAllOrNothing ==
    Called("edit_cells")
    => LET edits == applied[1].args.edits
           failed == SelectSeq(edits, LAMBDA e : ~IsAddress(e.cell))
       IN IF failed # <<>>
          THEN /\ ~value.success
               /\ value.proposedTable = 0
               /\ Len(value.error) = Len(failed)
               /\ \A k \in 1..Len(failed) :
                     /\ value.error[k].text = "Invalid cell coordinate"
                     /\ value.error[k].about = <<failed[k].cell>>
               /\ Deref(heap, input.ref) = input.arg
          ELSE /\ value.success
               /\ value.error = <<>>
               /\ value.proposedTable # 0

\* An edit of A1 together with an edit of 1A: the call fails naming 1A, and
\* A1 of the caller's table is as it was
C15_Witness ==
    /\ Called("edit_cells")
    /\ applied[1].args.edits = <<[cell |-> <<"A", "1">>, value |-> <<"x">>],
                                 [cell |-> <<"1", "A">>, value |-> <<"x">>]>>
    /\ ~value.success
    /\ Len(value.error) = 1
    /\ value.error[1].about = << <<"1", "A">> >>
    /\ input.arg = << <<<<"a">>>> >>
    /\ Deref(heap, input.ref) = input.arg

\* The edits of a batch that address row r and column c (1-based)
EditsOf(edits, r, c) ==
    {k \in 1..Len(edits) : AddressRow(edits[k].cell) = r /\ AddressColumn(edits[k].cell) = c}

Largest(S) == IF S = {} THEN 0 ELSE CHOOSE n \in S : \A m \in S : m <= n

\* C16: after a batch whose references all parse, the table has the rows it
\* had and, if an edit addresses a row beyond them, the rows up to the last
\* row addressed; a row has the cells it had and, if an edit addresses a
\* column beyond them, the cells up to the last column addressed in that row
\* (a row added and not addressed has no cell); an addressed cell holds the
\* value of the last edit that addresses it, every other cell that existed
\* holds what it held and every other cell is the empty string.  C5 edited
\* on the empty table gives 5 rows, the fifth of 3 cells.
C16_EditCellsGrowth ==
    Called("edit_cells") /\ value.success
    => LET edits == applied[1].args.edits
           t == input.arg
           result == Deref(heap, value.proposedTable)
           OldLen(r) == IF r <= Len(t) THEN Len(t[r]) ELSE 0
       IN /\ Len(result) =
                Largest({Len(t)} \cup {AddressRow(edits[k].cell) : k \in 1..Len(edits)})
          /\ \A r \in 1..Len(result) :
                /\ Len(result[r]) =
                      Largest({OldLen(r)} \cup
                              {AddressColumn(edits[k].cell) :
                                 k \in {j \in 1..Len(edits) : AddressRow(edits[j].cell) = r}})
                /\ \A c \in 1..Len(result[r]) :
                      result[r][c] =
                         IF EditsOf(edits, r, c) # {}
                         THEN edits[Largest(EditsOf(edits, r, c))].value
                         ELSE IF c <= OldLen(r) THEN t[r][c]
                         ELSE <<>>

C16_Witness ==
    /\ Called("edit_cells")
    /\ input.arg = <<>>
    /\ applied[1].args.edits = <<[cell |-> <<"C", "5">>, value |-> <<"x">>]>>
    /\ value.success
    /\ Deref(heap, value.proposedTable) =
          << <<>>, <<>>, <<>>, <<>>, << <<>>, <<>>, <<"x">> >> >>

\* The rectangle of a replace_area call, 1-based
AreaOf(call) ==
    [fromRow |-> AddressRow(call.args.from_cell),
     fromColumn |-> AddressColumn(call.args.from_cell),
     toRow |-> AddressRow(call.args.to_cell),
     toColumn |-> AddressColumn(call.args.to_cell)]

\* C17: after a successful toolReplaceArea the table has the rows it had
\* and the rows up to the bottom of the rectangle; a row of the rectangle
\* has the cells it had and the cells up to the right edge of the
\* rectangle; a cell inside the rectangle holds the entry of values at its
\* offset when there is one and the empty string when there is none; a cell
\* outside holds what it held, or the empty string when it is new; a row
\* added above the rectangle has no cell.
C17_ReplaceAreaPads ==
    Called("replace_area") /\ value.success
    => LET area == AreaOf(applied[1])
           values == applied[1].values
           t == input.arg
           result == Deref(heap, value.proposedTable)
           OldLen(r) == IF r <= Len(t) THEN Len(t[r]) ELSE 0
           Inside(r, c) == /\ area.fromRow <= r /\ r <= area.toRow
                           /\ area.fromColumn <= c /\ c <= area.toColumn
           Entry(r, c) ==
               LET i == r - area.fromRow + 1
                   j == c - area.fromColumn + 1
               IN IF i <= Len(values) /\ j <= Len(values[i]) THEN values[i][j] ELSE <<>>
       IN /\ Len(result) = Largest({Len(t), area.toRow})
          /\ \A r \in 1..Len(result) :
                /\ Len(result[r]) =
                      IF area.fromRow <= r /\ r <= area.toRow
                      THEN Largest({OldLen(r), area.toColumn})
                      ELSE OldLen(r)
                /\ \A c \in 1..Len(result[r]) :
                      result[r][c] = IF Inside(r, c) THEN Entry(r, c)
                                     ELSE IF c <= OldLen(r) THEN t[r][c]
                                     ELSE <<>>

\* A1:B2 replaced with [["x"]]: A1 is x and B1, A2, B2 are empty
C17_Witness ==
    /\ Called("replace_area")
    /\ applied[1].args.from_cell = <<"A", "1">>
    /\ applied[1].args.to_cell = <<"B", "2">>
    /\ applied[1].values = << <<<<"x">>>> >>
    /\ input.arg = << <<<<"a">>, <<"a">>>>, <<<<"a">>, <<"a">>>> >>
    /\ value.success
    /\ Deref(heap, value.proposedTable) = << <<<<"x">>, <<>>>>, <<<<>>, <<>>>> >>

Addressed(call, r, c) ==
    IF call.tool = "edit_cells" THEN EditsOf(call.args.edits, r, c) # {}
    ELSE LET area == AreaOf(call)
         IN /\ area.fromRow <= r /\ r <= area.toRow
            /\ area.fromColumn <= c /\ c <= area.toColumn

\* C29: after a successful toolEditCells or toolReplaceArea no row of the
\* table given is missing or shorter, every cell that existed and is not
\* addressed holds what it held, and every cell that is new and not
\* addressed is the empty string
C29_OnlyAddressedCellsChange ==
    (Called("edit_cells") \/ Called("replace_area")) /\ value.success
    => LET t == input.arg
           result == Deref(heap, value.proposedTable)
       IN /\ Len(result) >= Len(t)
          /\ \A r \in 1..Len(t) : Len(result[r]) >= Len(t[r])
          /\ \A r \in 1..Len(result) : \A c \in 1..Len(result[r]) :
                ~Addressed(applied[1], r, c)
                => result[r][c] = IF r <= Len(t) /\ c <= Len(t[r]) THEN t[r][c] ELSE <<>>

\* A rectangle that starts in column B and ends below the rows of the table:
\* the first cell of the table, which lies outside, is kept
C29_Witness ==
    /\ Called("replace_area")
    /\ value.success
    /\ AreaOf(applied[1]).fromColumn = 2
    /\ AreaOf(applied[1]).toRow > Len(input.arg)
    /\ Len(input.arg) >= 1
    /\ input.arg[1] # <<>>
    /\ input.arg[1][1] # <<>>
    /\ Deref(heap, value.proposedTable)[1][1] = input.arg[1][1]

----------------------------------------------------------------------------
(* Properties of the diff                                                  *)

Diffed == applied = <<"computeDiff">>

\* C19: the diff of a text with itself is "No changes.", and two different
\* texts are grouped into at least one hunk, so that their diff is never
\* "No changes."
C19_NoChangesOnlyForIdentical ==
    Diffed =>
        /\ input.arg[1] = input.arg[2] => value.output = NoChanges
        /\ input.arg[1] # input.arg[2] =>
               /\ Len(value.hunks) >= 1
               /\ value.output # NoChanges

\* Two different texts of which the second only adds lines to the first
C19_Witness ==
    /\ Diffed
    /\ input.arg[1] # input.arg[2]
    /\ \E k \in 1..Len(value.ops) : value.ops[k].type = "insert"
    /\ \A k \in 1..Len(value.ops) : value.ops[k].type # "delete"
    /\ Len(value.hunks) = 1

\* C20: for old = "a\nb\nc\n" and new = "a\nX\nc\n" there is exactly one
\* hunk, and its header is "@@ -1,3 +1,3 @@"
C20_ExampleHeaderCountsThreeLines ==
    Diffed /\ input.arg \in DiffExamples =>
        /\ Len(value.hunks) = 1
        /\ value.output[1] = Colored("cyan", <<"@", "@", " ", "-", "1", ",", "3", " ",
                                               "+", "1", ",", "3", " ", "@", "@">>)

\* The positions of the inserts and deletes of the script, counted from 0
Changes == {k \in 0..(Len(value.ops) - 1) : value.ops[k + 1].type # "equal"}

ChangesIn(hunk) == {k \in Changes : hunk.start <= k /\ k <= hunk.end}

Lowest(ks) == CHOOSE k \in ks : \A other \in ks : k <= other

Highest(ks) == CHOOSE k \in ks : \A other \in ks : other <= k

HunkOf(k) == {n \in 1..Len(value.hunks) : value.hunks[n].start <= k /\ k <= value.hunks[n].end}

\* C21: in every hunk at most 3 equal lines precede the first changed line
\* and at most 3 follow the last one, and two changes with at most 6 equal
\* lines between them (their 3-line paddings overlap or touch) are in the
\* same hunk
C21_ContextOfThreeLines ==
    Diffed =>
        /\ \A n \in 1..Len(value.hunks) :
               LET hunk == value.hunks[n]
               IN ChangesIn(hunk) # {} =>
                      /\ Lowest(ChangesIn(hunk)) - hunk.start <= CONTEXT_LINES
                      /\ hunk.end - Highest(ChangesIn(hunk)) <= CONTEXT_LINES
        /\ \A p, q \in Changes :
               p < q /\ q - p - 1 <= 2 * CONTEXT_LINES => HunkOf(p) = HunkOf(q)

OldLines == split(input.arg[1], LF)

NewLines == split(input.arg[2], LF)

\* The operations of the script that stand for a line of one side
OldSide == {k \in 1..Len(value.ops) : value.ops[k].type \in {"equal", "delete"}}

NewSide == {k \in 1..Len(value.ops) : value.ops[k].type \in {"equal", "insert"}}

\* The position among the elements of ks, counted from 0, of its element k
RankIn(ks, k) == Cardinality({other \in ks : other < k})

\* The elements of seq at the positions in ks, in order
Pick(seq, ks) ==
    [n \in 1..Cardinality(ks) |-> seq[CHOOSE k \in ks : RankIn(ks, k) = n - 1]]

RECURSIVE IsSubsequenceFrom(_, _, _, _)
IsSubsequenceFrom(sub, seq, i, j) ==
    IF i > Len(sub) THEN TRUE
    ELSE IF j > Len(seq) THEN FALSE
    ELSE IF sub[i] = seq[j] THEN IsSubsequenceFrom(sub, seq, i + 1, j + 1)
    ELSE IsSubsequenceFrom(sub, seq, i, j + 1)

\* Some n lines of a, in order, are a subsequence of b
CommonOfLength(a, b, n) ==
    \E ks \in {c \in SUBSET (1..Len(a)) : Cardinality(c) = n} :
        IsSubsequenceFrom(Pick(a, ks), b, 1, 1)

\* C24: the equal and delete operations spell the old lines, the equal and
\* insert operations the new lines, each operation carries the position of
\* its line, and the number of equal operations is the length of a longest
\* common subsequence of the two arrays of lines
C24_ScriptCorrectAndMinimal ==
    Diffed /\ input.arg[1] # input.arg[2] =>
        LET equals == Cardinality(OldSide \cap NewSide)
        IN /\ [n \in 1..Cardinality(OldSide) |-> Pick(value.ops, OldSide)[n].content] = OldLines
           /\ [n \in 1..Cardinality(NewSide) |-> Pick(value.ops, NewSide)[n].content] = NewLines
           /\ \A k \in 1..Len(value.ops) :
                  /\ value.ops[k].oldLine =
                         IF k \in OldSide THEN RankIn(OldSide, k) ELSE undefined
                  /\ value.ops[k].newLine =
                         IF k \in NewSide THEN RankIn(NewSide, k) ELSE undefined
           /\ CommonOfLength(OldLines, NewLines, equals)
           /\ ~CommonOfLength(OldLines, NewLines, equals + 1)

\* A script with all three kinds of operation, between texts that have a
\* common line the greedy comparison from the end would miss
C24_Witness ==
    /\ Diffed
    /\ \E k \in 1..Len(value.ops) : value.ops[k].type = "equal"
    /\ \E k \in 1..Len(value.ops) : value.ops[k].type = "delete"
    /\ \E k \in 1..Len(value.ops) : value.ops[k].type = "insert"
    /\ Len(OldLines) # Len(NewLines)

\* The place (i, j) of the backtracking when it emitted operation k
ReachedAt(k) ==
    [i |-> Cardinality({o \in OldSide : o <= k}), j |-> Cardinality({n \in NewSide : n <= k})]

\* C25 as stated: where old lines are replaced by new lines, the inserted
\* lines are shown before the deleted lines
C25_InsertedLinesShownFirst ==
    Diffed =>
        \A k \in 1..(Len(value.ops) - 1) :
            ~(value.ops[k].type = "delete" /\ value.ops[k + 1].type = "insert")

\* C25: where no line matches, the backtracking takes an insert exactly if
\* there is a new line left and lcs[i][j - 1] >= lcs[i - 1][j] (or no old
\* line is left); as the script is built from its end, the deleted lines of
\* a replaced run are shown before its inserted lines
C25_InsertPreferredDeletedShownFirst ==
    Diffed /\ input.arg[1] # input.arg[2] =>
        LET lcs == LcsTable(OldLines, NewLines, <<>>)
        IN /\ \A k \in 1..Len(value.ops) :
                  LET at == ReachedAt(k)
                  IN value.ops[k].type # "equal" =>
                         (value.ops[k].type = "insert" <=>
                             at.j > 0 /\ (at.i = 0 \/ lcs[at.i + 1][at.j] >= lcs[at.i][at.j + 1]))
           /\ \A k \in 1..(Len(value.ops) - 1) :
                  ~(value.ops[k].type = "insert" /\ value.ops[k + 1].type = "delete")

\* A replaced line, with lines before and after it
C25_Witness ==
    /\ Diffed
    /\ \E k \in 2..(Len(value.ops) - 2) :
           /\ value.ops[k - 1].type = "equal"
           /\ value.ops[k].type = "delete"
           /\ value.ops[k + 1].type = "insert"
           /\ value.ops[k + 2].type = "equal"

\* C28: the hunks of two different texts are non-empty ranges of the script,
\* each wholly before the next, and every insert and delete lies in exactly
\* one of them, so that the output has one "-" or "+" line for each
C28_HunksPartitionTheChanges ==
    Diffed /\ input.arg[1] # input.arg[2] =>
        /\ \A n \in 1..Len(value.hunks) :
               /\ 0 <= value.hunks[n].start
               /\ value.hunks[n].start <= value.hunks[n].end
               /\ value.hunks[n].end <= Len(value.ops) - 1
        /\ \A n \in 1..(Len(value.hunks) - 1) :
               value.hunks[n].end < value.hunks[n + 1].start
        /\ \A k \in Changes : Cardinality(HunkOf(k)) = 1
        /\ Cardinality({n \in 1..Len(value.output) : value.output[n].color \in {"red", "green"}})
               = Cardinality(Changes)

\* Two hunks, the first of which starts at the first line
C28_Witness ==
    /\ Diffed
    /\ Len(value.hunks) = 2
    /\ value.hunks[1].start = 0
    /\ value.hunks[2].end = Len(value.ops) - 1

----------------------------------------------------------------------------
(* Properties of the stream transform                                      *)

Flushed == applied # <<>> /\ applied[Len(applied)] = "flush"

\* The chunks with every run of consecutive text-deltas made one text-delta
\* of the concatenated texts
RECURSIVE Sections(_)
Sections(chunks) ==
    IF Len(chunks) <= 1 THEN chunks
    ELSE LET rest == Sections(Tail(chunks))
         IN IF chunks[1].type = "text-delta" /\ rest[1].type = "text-delta"
            THEN <<TextDelta(chunks[1].text \o rest[1].text)>> \o Tail(rest)
            ELSE <<chunks[1]>> \o rest

\* C27: when the stream is closed, the texts emitted for each run of
\* consecutive text-deltas make up the texts of the run without its leading
\* and trailing whitespace, and the other chunks are emitted as they came,
\* once each and in their places between the runs
C27_SectionsAreTrimmed ==
    Flushed =>
        Sections(value.stream.enqueued) =
            [k \in 1..Len(Sections(input.arg)) |->
                LET section == Sections(input.arg)[k]
                IN IF section.type = "text-delta" THEN TextDelta(trim(section.text))
                   ELSE section]

----------------------------------------------------------------------------
(* Properties of the line editor                                           *)

\* C30: after any sequence of keys the cursor is inside the buffer, and raw
\* mode is off when readLine has returned
C30_CursorInsideBuffer ==
    value.pc \in {"reading", "returned"} =>
        /\ 0 <= value.cursorPos
        /\ value.cursorPos <= Len(value.buffer)
        /\ value.pc = "returned" => ~value.raw

====
